---------------------------- MODULE Spec2Model ----------------------------
(***************************************************************************)
(* A model of the price-tracking application: the product detail page      *)
(* (src/src/pages/ProductDetail.tsx), the sentiment hook                   *)
(* (src/unnamed/part_001) and the remote analysis proxy                    *)
(* (src/unnamed/part_000).                                                 *)
(*                                                                         *)
(* JavaScript numbers are modelled as exact rationals <<n, d>> in lowest   *)
(* terms with d > 0, extended with the three non-finite values of IEEE     *)
(* arithmetic: NaN = <<0,0>>, +Infinity = <<1,0>>, -Infinity = <<-1,0>>.   *)
(* Binary rounding error of doubles is not modelled.                       *)
(***************************************************************************)
EXTENDS Integers, Sequences, FiniteSets, TLC

(***************************************************************************)
(* Bounds of the model.                                                    *)
(***************************************************************************)
MaxHist == 3

\* The length of the flat histories the model adds to the short ones.
FlatLen == 5
MaxReviews == 2

(***************************************************************************)
(* JavaScript numbers.                                                     *)
(***************************************************************************)
Abs(i) == IF i < 0 THEN -i ELSE i

Sign(i) == IF i < 0 THEN -1 ELSE IF i > 0 THEN 1 ELSE 0

RECURSIVE GCD(_, _)
GCD(a, b) == IF b = 0 THEN a ELSE GCD(b, a % b)

\* The number n/d in lowest terms; a zero denominator gives NaN or +-Infinity.
Norm(n, d) ==
  IF d = 1 THEN <<n, 1>>
  ELSE IF d = 0 THEN <<Sign(n), 0>>
  ELSE LET g == GCD(Abs(n), Abs(d))
           s == Sign(d)
       IN  <<(s * n) \div g, (s * d) \div g>>

Num(i) == <<i, 1>>
NaN == <<0, 0>>
PosInf == <<1, 0>>
NegInf == <<-1, 0>>

IsNaN(a) == a = NaN
IsFinite(a) == a[2] # 0
IsInteger(a) == a[2] = 1

Neg(a) == <<-a[1], a[2]>>

Add(a, b) ==
  IF a[2] = 1 /\ b[2] = 1 THEN <<a[1] + b[1], 1>>
  ELSE IF IsNaN(a) \/ IsNaN(b) THEN NaN
  ELSE IF ~IsFinite(a) /\ ~IsFinite(b) THEN (IF a = b THEN a ELSE NaN)
  ELSE Norm(a[1] * b[2] + b[1] * a[2], a[2] * b[2])

Sub(a, b) == Add(a, Neg(b))

Mul(a, b) ==
  IF a[2] = 1 /\ b[2] = 1 THEN <<a[1] * b[1], 1>>
  ELSE Norm(a[1] * b[1], a[2] * b[2])

\* a / b as JavaScript evaluates it: x/0 is +-Infinity, 0/0 is NaN.
Div(a, b) == Norm(a[1] * b[2], a[2] * b[1])

\* a < b; every comparison with NaN is false.
Lt(a, b) ==
  IF IsNaN(a) \/ IsNaN(b) THEN FALSE
  ELSE IF ~IsFinite(a) /\ ~IsFinite(b) THEN a[1] < b[1]
  ELSE a[1] * b[2] < b[1] * a[2]

Gt(a, b) == Lt(b, a)
Le(a, b) == ~IsNaN(a) /\ ~IsNaN(b) /\ ~Lt(b, a)
Ge(a, b) == Le(b, a)

\* Math.round: the nearest integer, halves towards +Infinity.
MathRound(a) ==
  IF ~IsFinite(a) THEN a ELSE Num((2 * a[1] + a[2]) \div (2 * a[2]))

\* Math.min(a, b) and Math.max(a, b): NaN if either argument is NaN.
MathMin2(a, b) == IF IsNaN(a) \/ IsNaN(b) THEN NaN ELSE IF Lt(b, a) THEN b ELSE a
MathMax2(a, b) == IF IsNaN(a) \/ IsNaN(b) THEN NaN ELSE IF Gt(b, a) THEN b ELSE a

\* Math.min(...xs) and Math.max(...xs): +Infinity and -Infinity for no argument.
RECURSIVE MathMin(_)
MathMin(xs) == IF xs = <<>> THEN PosInf ELSE MathMin2(Head(xs), MathMin(Tail(xs)))

RECURSIVE MathMax(_)
MathMax(xs) == IF xs = <<>> THEN NegInf ELSE MathMax2(Head(xs), MathMax(Tail(xs)))

\* xs.reduce((a, b) => a + b, 0)
RECURSIVE SumOf(_)
SumOf(xs) == IF xs = <<>> THEN Num(0) ELSE Add(Head(xs), SumOf(Tail(xs)))

\* xs.slice(-k)
SliceLast(xs, k) ==
  IF Len(xs) <= k THEN xs ELSE SubSeq(xs, Len(xs) - k + 1, Len(xs))

\* xs.slice(0, k)
SliceFirst(xs, k) == IF Len(xs) <= k THEN xs ELSE SubSeq(xs, 1, k)

(***************************************************************************)
(* JavaScript strings, as sequences of characters.                         *)
(***************************************************************************)
WhiteSpace == {" ", "\n", "\t"}

\* s.substring(from) and s.substring(0, to), counting characters from 0
SubstringFrom(s, from) == IF from >= Len(s) THEN <<>> ELSE SubSeq(s, from + 1, Len(s))
SubstringTo(s, to) == IF to >= Len(s) THEN s ELSE SubSeq(s, 1, to)

StartsWith(s, pre) == Len(s) >= Len(pre) /\ SubSeq(s, 1, Len(pre)) = pre

\* The 1-based positions at which sub occurs in s.
Occurrences(s, sub) ==
  {i \in 1..(Len(s) - Len(sub) + 1) : SubSeq(s, i, i + Len(sub) - 1) = sub}

\* s.includes(sub)
Includes(s, sub) == Occurrences(s, sub) # {}

\* s.split(sep) for a non-empty separator
RECURSIVE Split(_, _)
Split(s, sep) ==
  LET occ == Occurrences(s, sep)
  IN  IF occ = {} THEN <<s>>
      ELSE LET i == CHOOSE j \in occ : \A k \in occ : j <= k
           IN  <<SubSeq(s, 1, i - 1)>> \o Split(SubstringFrom(s, i + Len(sep) - 1), sep)

RECURSIVE TrimStart(_)
TrimStart(s) ==
  IF s # <<>> /\ Head(s) \in WhiteSpace THEN TrimStart(Tail(s)) ELSE s

RECURSIVE TrimEnd(_)
TrimEnd(s) ==
  IF s # <<>> /\ s[Len(s)] \in WhiteSpace THEN TrimEnd(SubSeq(s, 1, Len(s) - 1)) ELSE s

\* s.trim()
Trim(s) == TrimEnd(TrimStart(s))

\* The lower-case letter of an upper-case letter.
UpperToLower ==
  "A" :> "a" @@ "B" :> "b" @@ "C" :> "c" @@ "D" :> "d" @@ "E" :> "e" @@ "F" :> "f" @@
  "G" :> "g" @@ "H" :> "h" @@ "I" :> "i" @@ "J" :> "j" @@ "K" :> "k" @@ "L" :> "l" @@
  "M" :> "m" @@ "N" :> "n" @@ "O" :> "o" @@ "P" :> "p" @@ "Q" :> "q" @@ "R" :> "r" @@
  "S" :> "s" @@ "T" :> "t" @@ "U" :> "u" @@ "V" :> "v" @@ "W" :> "w" @@ "X" :> "x" @@
  "Y" :> "y" @@ "Z" :> "z"

\* s.toLowerCase()
ToLowerCase(s) ==
  [i \in 1..Len(s) |-> IF s[i] \in DOMAIN UpperToLower THEN UpperToLower[s[i]] ELSE s[i]]

\* A nullable value: <<>> is null, <<v>> is the value v.
Null == <<>>
Some(v) == <<v>>


(***************************************************************************)
(* The data the model draws its inputs from.                               *)
(***************************************************************************)
\* Prices found in price_history rows.
HistoryPrices == {80, 100}

\* Values of products.current_price: below, inside and above the history's range.
CurrentPrices == {60, 80, 86, 92, 100, 120}

\* product_reviews.rating
Ratings == 1..5

SeqsUpTo(S, n) == UNION {[1..k -> S] : k \in 0..n}

\* The rows of price_history of the product, ordered by recorded_at.
Histories ==
  SeqsUpTo([price : HistoryPrices], MaxHist)
    \cup {[i \in 1..FlatLen |-> [price |-> v]] : v \in HistoryPrices}

\* The rows of product_reviews of the product.
ReviewLists == SeqsUpTo([rating : Ratings, review_text : {"ok"}], MaxReviews)

Products == [current_price : CurrentPrices]

(***************************************************************************)
(* State.                                                                  *)
(***************************************************************************)
VARIABLES
  product,            \* useState<Product | null>
  priceHistory,       \* useState<PriceHistory[]>
  reviews,            \* useState<ProductReview[]>
  loading,            \* useState(true)
  analysis,           \* useState<ProductAnalysis | null>
  aiAnalysis,         \* useState<AIAnalysis | null>
  loadingAnalysis,    \* useState(false)
  loadingAIAnalysis,  \* useState(false)
  aiLocals,           \* the locals of the latest analyzeProductWithAI run
  upsertInFlight,     \* the product_analysis upsert analyzeProduct awaits
  product_analysis,   \* the product's row of table product_analysis, or null
  priceDrops          \* useState<PriceDrop[]>([])

pageVars == <<product, priceHistory, reviews, loading, analysis, aiAnalysis,
              loadingAnalysis, loadingAIAnalysis, aiLocals, upsertInFlight,
              product_analysis, priceDrops>>

\* The state of tracking: the signed-in user, the page's view of the
\* subscription, and the backend's rows for this user and this product.
VARIABLES
  user,               \* useAuth().user, or null
  isTracked,          \* useState(false)
  dialogOpen,         \* useState(false)
  lastToast,          \* the title of the latest toast of trackProduct / untrackProduct
  navigatedToAuth,    \* navigate('/auth') was called
  tracked_products,   \* the number of rows of tracked_products of (user, product)
  user_preferences,   \* the number of rows of user_preferences of (user, category)
  insertsInFlight,    \* trackProduct runs awaiting the insert
  upsertsInFlight,    \* trackProduct runs awaiting the upsert
  deletesInFlight,    \* untrackProduct runs awaiting the delete
  trackCalls,         \* the calls of trackProduct so far
  untrackCalls        \* the calls of untrackProduct so far

\* The tracking state fetchProductData leaves alone.
trackFrame == <<user, dialogOpen, lastToast, navigatedToAuth, tracked_products,
                user_preferences, insertsInFlight, upsertsInFlight, deletesInFlight,
                trackCalls, untrackCalls>>

trackVars == <<isTracked, trackFrame>>

\* priceHistory.map(h => h.price), as numbers
PricesOf(history) == [i \in 1..Len(history) |-> Num(history[i].price)]

\* reviews.map(r => r.rating), as numbers
RatingsOf(rs) == [i \in 1..Len(rs) |-> Num(rs[i].rating)]

(***************************************************************************)
(* analyzeProductWithAI: the local worth-buying scorer.                    *)
(***************************************************************************)
\* A guard that lets a zero range through: priceRange >= 0.
PriceRangeNotNegative(priceRange) == Ge(priceRange, Num(0))

\* priceRange > 0, the guard of the division by priceRange
PriceRangeIsPositive(priceRange) == Gt(priceRange, Num(0))

\* priceRange > 0 ? ((currentPrice - lowest) / priceRange) * 100 : 50
PricePosition(currentPrice, lowest, priceRange) ==
  IF PriceRangeIsPositive(priceRange)
  THEN Mul(Div(Sub(currentPrice, lowest), priceRange), Num(100))
  ELSE Num(50)

\* The accumulators num and den of the regression over recentPrices
\* (x is the 0-based index of y in recentPrices).
RECURSIVE TrendNum(_, _, _, _)
TrendNum(ys, x, xMean, yMean) ==
  IF ys = <<>> THEN Num(0)
  ELSE Add(Mul(Sub(Num(x), xMean), Sub(Head(ys), yMean)),
           TrendNum(Tail(ys), x + 1, xMean, yMean))

RECURSIVE TrendDen(_, _, _)
TrendDen(ys, x, xMean) ==
  IF ys = <<>> THEN Num(0)
  ELSE Add(Mul(Sub(Num(x), xMean), Sub(Num(x), xMean)),
           TrendDen(Tail(ys), x + 1, xMean))

\* Trend analysis (linear regression on recent data).
TrendWindow == 14

\* A regression over the whole history, without the slice of the recent points.
TrendSlopeOfAll(prices) ==
  LET n == Len(prices)
  IN  IF n > 2
      THEN LET xMean == Div(Num(n - 1), Num(2))
               yMean == Div(SumOf(prices), Num(n))
               num == TrendNum(prices, 0, xMean, yMean)
               den == TrendDen(prices, 0, xMean)
           IN  IF den # Num(0) THEN Div(num, den) ELSE Num(0)
      ELSE Num(0)

TrendSlope(prices) ==
  LET recentPrices == SliceLast(prices, TrendWindow)
      n == Len(recentPrices)
  IN  IF n > 2
      THEN LET xMean == Div(Num(n - 1), Num(2))
               yMean == Div(SumOf(recentPrices), Num(n))
               num == TrendNum(recentPrices, 0, xMean, yMean)
               den == TrendDen(recentPrices, 0, xMean)
           IN  IF den # Num(0) THEN Div(num, den) ELSE Num(0)
      ELSE Num(0)

\* prices.reduce((sum, p) => sum + (p - avg) ** 2, 0)
RECURSIVE SumSqDev(_, _)
SumSqDev(xs, avg) ==
  IF xs = <<>> THEN Num(0)
  ELSE Add(Mul(Sub(Head(xs), avg), Sub(Head(xs), avg)), SumSqDev(Tail(xs), avg))

\* volatility = (stdDev / avg) * 100 with stdDev = Math.sqrt(variance).  The square
\* root is not rational: the model keeps the square of volatility, which decides
\* every comparison of volatility (a non-negative number) with a constant.
VolatilitySq(prices, avg) ==
  LET variance == Div(SumSqDev(prices, avg), Num(Len(prices)))
  IN  Mul(Div(variance, Mul(avg, avg)), Num(10000))

\* reviews.length > 0 ? reviews.reduce((s, r) => s + r.rating, 0) / reviews.length : 3
AvgRating(rs) ==
  IF Len(rs) > 0 THEN Div(SumOf(RatingsOf(rs)), Num(Len(rs))) ELSE Num(3)

\* ((avgRating - 3) / 2) * 15
\* A review bonus without the division by 2: (avgRating - 3) * 15.
ReviewBonusNoHalf(avgRating) == Mul(Sub(avgRating, Num(3)), Num(15))

ReviewBonus(avgRating) == Mul(Div(Sub(avgRating, Num(3)), Num(2)), Num(15))

\* Math.round(100 - pricePosition + reviewBonus)
RoundedBase(pricePosition, reviewBonus) ==
  MathRound(Add(Sub(Num(100), pricePosition), reviewBonus))

\* A trend adjustment with the two amounts exchanged: +5 when falling, -10 when
\* rising.
TrendAdjustedExchanged(score, trendSlope) ==
  LET s1 == IF Lt(trendSlope, Num(0)) THEN Add(score, Num(5)) ELSE score
  IN  IF Gt(trendSlope, Num(0)) THEN Sub(s1, Num(10)) ELSE s1

\* if (trendSlope < 0) score += 10; if (trendSlope > 0) score -= 5
TrendAdjusted(score, trendSlope) ==
  LET s1 == IF Lt(trendSlope, Num(0)) THEN Add(score, Num(10)) ELSE score
  IN  IF Gt(trendSlope, Num(0)) THEN Sub(s1, Num(5)) ELSE s1

\* A score that is left as the trend adjustment made it, without the clamp.
ClampScoreUnclamped(score) == score

\* Math.max(5, Math.min(95, worthBuyingScore))
ClampScore(score) == MathMax2(Num(5), MathMin2(Num(95), score))

WorthBuyingScore(pricePosition, reviewBonus, trendSlope) ==
  ClampScore(TrendAdjusted(RoundedBase(pricePosition, reviewBonus), trendSlope))

TrendDirection(trendSlope) ==
  IF Lt(trendSlope, Num(-10)) THEN "dropping significantly"
  ELSE IF Lt(trendSlope, Num(0)) THEN "trending downward"
  ELSE IF Gt(trendSlope, Num(10)) THEN "rising significantly"
  ELSE IF Gt(trendSlope, Num(0)) THEN "trending upward"
  ELSE "stable"

\* A labelling whose lower threshold is inclusive: volatility >= 8.
VolatilityLevelInclusive(volatilitySq) ==
  IF Gt(volatilitySq, Num(15 * 15)) THEN "highly volatile"
  ELSE IF ~Lt(volatilitySq, Num(8 * 8)) THEN "moderately volatile"
  ELSE "stable"

\* volatility > 15 ? ... : volatility > 8 ? ... : 'stable', on the square
VolatilityLevel(volatilitySq) ==
  IF Gt(volatilitySq, Num(15 * 15)) THEN "highly volatile"
  ELSE IF Gt(volatilitySq, Num(8 * 8)) THEN "moderately volatile"
  ELSE "stable"

\* A tiering whose lower threshold is 35 instead of 40.
TierLowThreshold(worthBuyingScore) ==
  IF Ge(worthBuyingScore, Num(70)) THEN "Strong buy"
  ELSE IF Ge(worthBuyingScore, Num(35)) THEN "Fair deal"
  ELSE "Wait for a better price"

\* A tiering that compares with > where the code compares with >=.
TierStrict(worthBuyingScore) ==
  IF Gt(worthBuyingScore, Num(70)) THEN "Strong buy"
  ELSE IF Gt(worthBuyingScore, Num(40)) THEN "Fair deal"
  ELSE "Wait for a better price"

\* The if / else if / else that picks the template of summary and
\* detailedRecommendation.
Tier(worthBuyingScore) ==
  IF Ge(worthBuyingScore, Num(70)) THEN "Strong buy"
  ELSE IF Ge(worthBuyingScore, Num(40)) THEN "Fair deal"
  ELSE "Wait for a better price"


\* The body of analyzeProductWithAI between setLoadingAIAnalysis(true) and
\* setAiAnalysis: its locals, for product p, price history h and reviews rs.
AILocals(p, h, rs) ==
  LET prices == PricesOf(h)
      currentPrice == Num(p.current_price)
      avg == Div(SumOf(prices), Num(Len(prices)))
      lowest == MathMin(prices)
      highest == MathMax(prices)
      priceRange == Sub(highest, lowest)
      pricePosition == PricePosition(currentPrice, lowest, priceRange)
      trendSlope == TrendSlope(prices)
      volatilitySq == VolatilitySq(prices, avg)
      avgRating == AvgRating(rs)
      reviewBonus == ReviewBonus(avgRating)
  IN  [currentPrice |-> currentPrice, avg |-> avg, lowest |-> lowest,
       highest |-> highest, priceRange |-> priceRange,
       dividedByRange |-> PriceRangeIsPositive(priceRange),
       pricePosition |-> pricePosition, trendSlope |-> trendSlope,
       volatilitySq |-> volatilitySq, avgRating |-> avgRating,
       reviewBonus |-> reviewBonus,
       worthBuyingScore |-> WorthBuyingScore(pricePosition, reviewBonus, trendSlope),
       trendDirection |-> TrendDirection(trendSlope),
       volatilityLevel |-> VolatilityLevel(volatilitySq)]

\* The value handed to setAiAnalysis.  A text is kept as the template chosen (tier)
\* and the labels interpolated into it; the formatted prices are left out.
AIAnalysisOf(l) ==
  [worthBuyingScore |-> l.worthBuyingScore,
   summary |-> [tier |-> Tier(l.worthBuyingScore),
                trendDirection |-> l.trendDirection],
   detailedRecommendation |->
     [tier |-> Tier(l.worthBuyingScore),
      trendDirection |-> l.trendDirection,
      volatilityLevel |-> l.volatilityLevel]]

\* analyzeProductWithAI has no await: it runs to completion in one step, and
\* loadingAIAnalysis, set and reset in the same step, is false after it.
AnalyzeProductWithAI ==
  /\ product # Null
  /\ Len(priceHistory) # 0
  /\ ~loadingAIAnalysis
  /\ LET l == AILocals(product[1], priceHistory, reviews)
     IN  /\ aiLocals' = Some(l)
         /\ aiAnalysis' = Some(AIAnalysisOf(l))
  /\ loadingAIAnalysis' = FALSE
  /\ UNCHANGED <<product, priceDrops, priceHistory, reviews, loading, analysis,
                 loadingAnalysis, upsertInFlight, product_analysis>>

(***************************************************************************)
(* The values derived on every render, and the legacy analyzeProduct.      *)
(***************************************************************************)
\* product?.current_price || 0
CurrentPriceOrZero(p) == IF p = Null THEN Num(0) ELSE Num(p[1].current_price)

LowestPrice(p, h) ==
  IF Len(h) > 0 THEN MathMin(PricesOf(h)) ELSE CurrentPriceOrZero(p)

HighestPrice(p, h) ==
  IF Len(h) > 0 THEN MathMax(PricesOf(h)) ELSE CurrentPriceOrZero(p)

\* getBuyRecommendation, called on every render with the product p (or null) and
\* the price history h: the label and the position on the slider.
GetBuyRecommendation(p, h) ==
  LET lowestPrice == LowestPrice(p, h)
      highestPrice == HighestPrice(p, h)
      priceRange == Sub(highestPrice, lowestPrice)
      priceRatio == Div(Sub(CurrentPriceOrZero(p), lowestPrice), priceRange)
      percentile == MathRound(Mul(priceRatio, Num(100)))
      sliderPosition == Sub(Num(85), Mul(percentile, Norm(7, 10)))
  IN  IF p = Null \/ lowestPrice = Num(0) \/ highestPrice = Num(0) \/ Len(h) < 5
      THEN [label |-> "Okay", position |-> Num(50)]
      ELSE IF Lt(priceRange, Num(100))
      THEN [label |-> "Okay", position |-> Num(50)]
      ELSE IF Le(percentile, Num(20)) THEN [label |-> "Yes", position |-> sliderPosition]
      ELSE IF Le(percentile, Num(40)) THEN [label |-> "Okay", position |-> sliderPosition]
      ELSE IF Le(percentile, Num(70)) THEN [label |-> "Wait", position |-> sliderPosition]
      ELSE [label |-> "Skip", position |-> sliderPosition]

\* const recommendation = getBuyRecommendation()
recommendation == GetBuyRecommendation(product, priceHistory)

\* The three last prices never rise: recentPrices.every(...)
IsDecreasing(h) ==
  LET recentPrices == SliceLast(PricesOf(h), 3)
  IN  \A i \in 2..Len(recentPrices) : Le(recentPrices[i], recentPrices[i - 1])

\* sentimentScore of analyzeProduct, clamped to [0, 1].
SentimentScore(p, h, rs) ==
  LET cur == Num(p[1].current_price)
      lowestPrice == LowestPrice(p, h)
      highestPrice == HighestPrice(p, h)
      avgPrice == IF Len(h) > 0 THEN Div(SumOf(PricesOf(h)), Num(Len(h))) ELSE cur
      f1 == IF Le(cur, Mul(lowestPrice, Norm(105, 100))) THEN Norm(3, 10)
            ELSE IF Le(cur, avgPrice) THEN Norm(15, 100)
            ELSE IF Ge(cur, Mul(highestPrice, Norm(95, 100))) THEN Norm(-15, 100)
            ELSE Num(0)
      range == Sub(highestPrice, lowestPrice)
      priceVolatility ==
        IF Len(h) > 1
        THEN Div(IF Lt(range, Num(0)) THEN Neg(range) ELSE range, avgPrice)
        ELSE Num(0)
      f2 == IF Lt(priceVolatility, Norm(1, 10)) THEN Norm(2, 10)
            ELSE IF Lt(priceVolatility, Norm(2, 10)) THEN Norm(1, 10)
            ELSE Num(0)
      f3 == IF Len(h) >= 3 /\ IsDecreasing(h) THEN Norm(2, 10) ELSE Num(0)
      f4 == IF Len(rs) > 0
            THEN Mul(Div(Div(SumOf(RatingsOf(rs)), Num(Len(rs))), Num(5)), Norm(3, 10))
            ELSE Num(0)
      raw == Add(Add(Add(Add(Norm(1, 2), f1), f2), f3), f4)
  IN  MathMax2(Num(0), MathMin2(Num(1), raw))

\* The template of recommendation and summary that analyzeProduct picks.
LegacyTier(sentimentScore) ==
  IF Ge(sentimentScore, Norm(7, 10)) THEN "Great time to buy"
  ELSE IF Ge(sentimentScore, Norm(4, 10)) THEN "Decent pricing"
  ELSE "Price is high"

AnalysisResult(p, h, rs) ==
  LET sentimentScore == SentimentScore(p, h, rs)
  IN  [sentiment_score |-> sentimentScore,
       recommendation |-> LegacyTier(sentimentScore),
       analysis_summary |-> LegacyTier(sentimentScore)]

\* analyzeProduct up to its await: the score is computed and shown, and the upsert
\* of the product_analysis row is sent.
AnalyzeProduct ==
  /\ product # Null
  /\ ~loadingAnalysis
  /\ loadingAnalysis' = TRUE
  /\ LET r == AnalysisResult(product, priceHistory, reviews)
     IN  /\ analysis' = Some(r)
         /\ upsertInFlight' = Some(r)
  /\ UNCHANGED <<product, priceDrops, priceHistory, reviews, loading, aiAnalysis,
                 loadingAIAnalysis, aiLocals, product_analysis>>

\* A run without the finally block: loadingAnalysis is reset only after a write
\* that was applied.
AnalyzeProductUpsertDoneNoFinally ==
  /\ upsertInFlight # Null
  /\ \E applied \in BOOLEAN :
       /\ product_analysis' = IF applied THEN upsertInFlight ELSE product_analysis
       /\ loadingAnalysis' = ~applied
  /\ upsertInFlight' = Null
  /\ UNCHANGED <<product, priceDrops, priceHistory, reviews, loading, analysis, aiAnalysis,
                 loadingAIAnalysis, aiLocals>>

\* The upsert completes: the row is written (applied) or the request fails; the
\* result is not inspected, and the finally block resets loadingAnalysis.
AnalyzeProductUpsertDone ==
  /\ upsertInFlight # Null
  /\ \E applied \in BOOLEAN :
       product_analysis' = IF applied THEN upsertInFlight ELSE product_analysis
  /\ upsertInFlight' = Null
  /\ loadingAnalysis' = FALSE
  /\ UNCHANGED <<product, priceDrops, priceHistory, reviews, loading, analysis, aiAnalysis,
                 loadingAIAnalysis, aiLocals>>


(***************************************************************************)
(* fetchProductData: the page loads the product, its price history, the    *)
(* cached analysis and its reviews.  A failed query of the product, of the *)
(* history or of a later table throws and leaves the rest unset; a failed  *)
(* query of the reviews is ignored.                                        *)
(***************************************************************************)
\* The drops the loop over historyData collects from index i on.  A row of the
\* history holds no recorded_at here: the date of a drop is the index of its row.
RECURSIVE Drops(_, _)
Drops(historyData, i) ==
  IF i > Len(historyData) THEN <<>>
  ELSE LET prevPrice == Num(historyData[i - 1].price)
           currPrice == Num(historyData[i].price)
           dropPercentage == Mul(Div(Sub(prevPrice, currPrice), prevPrice), Num(100))
       IN  (IF Lt(currPrice, prevPrice) /\ Ge(dropPercentage, Num(5))
            THEN <<[date |-> i, old_price |-> prevPrice, new_price |-> currPrice,
                    drop_percentage |-> dropPercentage]>>
            ELSE <<>>)
           \o Drops(historyData, i + 1)

\* drops.slice(0, 5)
ShownDrops == 5

\* if (historyData && historyData.length > 1) { ... setPriceDrops(drops.slice(0, 5)) }
PriceDropsAfter(historyData, before) ==
  IF Len(historyData) > 1 THEN SliceFirst(Drops(historyData, 2), ShownDrops) ELSE before

\* .select('id').eq(...).eq(...).single(): data only when exactly one row matches.
TrackedData(rows) == rows = 1

\* fetchProductData when the backend holds one of the products ps, one of the
\* histories hs and one of the review lists rss.
FetchProductDataFrom(ps, hs, rss) ==
  /\ loading
  /\ loading' = FALSE
  /\ \E p \in ps, h \in hs, rs \in rss :
       /\ product' = Some(p)
       /\ priceHistory' = h
       /\ reviews' = rs
  /\ analysis' = product_analysis
  /\ priceDrops' = PriceDropsAfter(priceHistory', priceDrops)
  /\ isTracked' = IF user # Null THEN TrackedData(tracked_products) ELSE isTracked
  /\ UNCHANGED <<aiAnalysis, loadingAnalysis, loadingAIAnalysis, aiLocals,
                 upsertInFlight, product_analysis, trackFrame>>

FetchProductData == FetchProductDataFrom(Products, Histories, ReviewLists)

FetchProductDataFails ==
  /\ loading
  /\ loading' = FALSE
  /\ \/ UNCHANGED <<product, priceHistory>>
     \/ \E p \in Products : product' = Some(p) /\ UNCHANGED priceHistory
     \/ \E p \in Products, h \in Histories : product' = Some(p) /\ priceHistory' = h
  /\ UNCHANGED <<reviews, analysis, aiAnalysis, loadingAnalysis, loadingAIAnalysis,
                 aiLocals, upsertInFlight, product_analysis, priceDrops, trackVars>>

(***************************************************************************)
(* Tracking: trackProduct and untrackProduct, each from its call to the    *)
(* end of its run, and the backend's tables tracked_products and           *)
(* user_preferences.  The schema of tracked_products is not part of the    *)
(* sources: the backend is taken to enforce one row for a user and a       *)
(* product, and to reject an insert that would add a second one.           *)
(***************************************************************************)
MaxTrackCalls == 2
MaxUntrackCalls == 2

\* An insert that the backend accepts whatever rows there are.
InsertRowUnchecked(rows) == [ok |-> TRUE, rows |-> rows + 1]

\* The backend's answer to the insert of a row for (user, product) when it holds
\* rows such rows: a second row is rejected.
InsertRow(rows) ==
  IF rows >= 1 THEN [ok |-> FALSE, rows |-> rows]
               ELSE [ok |-> TRUE, rows |-> rows + 1]

\* .delete().eq('user_id', ...).eq('product_id', ...): every matching row goes.
DeleteRows(rows) == 0

\* .upsert({...}, { onConflict: 'user_id,category' }): the row is inserted, or the
\* one there is updated.
UpsertPreference(rows) == IF rows = 0 THEN 1 ELSE rows

\* The session of the user starts.
SignIn ==
  /\ user = Null
  /\ user' = Some("u1")
  /\ UNCHANGED <<isTracked, dialogOpen, lastToast, navigatedToAuth, tracked_products,
                 user_preferences, insertsInFlight, upsertsInFlight, deletesInFlight,
                 trackCalls, untrackCalls>>

\* The page shows the product, and the dialog with the button that calls
\* trackProduct while isTracked is false.
PageShown == ~loading /\ product # Null

OpenDialog ==
  /\ PageShown
  /\ ~isTracked
  /\ ~dialogOpen
  /\ dialogOpen' = TRUE
  /\ UNCHANGED <<user, isTracked, lastToast, navigatedToAuth, tracked_products,
                 user_preferences, insertsInFlight, upsertsInFlight, deletesInFlight,
                 trackCalls, untrackCalls>>

\* A trackProduct without the check of the user: the insert is always sent.
TrackProductUnchecked ==
  /\ PageShown
  /\ ~isTracked
  /\ dialogOpen
  /\ trackCalls < MaxTrackCalls
  /\ trackCalls' = trackCalls + 1
  /\ insertsInFlight' = insertsInFlight + 1
  /\ UNCHANGED <<lastToast, navigatedToAuth>>
  /\ UNCHANGED <<user, isTracked, dialogOpen, tracked_products, user_preferences,
                 upsertsInFlight, deletesInFlight, untrackCalls>>

\* trackProduct up to its first await: without a user it asks to sign in and
\* returns, else it sends the insert.
TrackProduct ==
  /\ PageShown
  /\ ~isTracked
  /\ dialogOpen
  /\ trackCalls < MaxTrackCalls
  /\ trackCalls' = trackCalls + 1
  /\ IF user = Null
     THEN /\ lastToast' = "Authentication Required"
          /\ navigatedToAuth' = TRUE
          /\ UNCHANGED insertsInFlight
     ELSE /\ insertsInFlight' = insertsInFlight + 1
          /\ UNCHANGED <<lastToast, navigatedToAuth>>
  /\ UNCHANGED <<user, isTracked, dialogOpen, tracked_products, user_preferences,
                 upsertsInFlight, deletesInFlight, untrackCalls>>

\* The insert is answered with the row added: isTracked is set, the dialog is
\* closed and, the product being there, the upsert of the preference is sent.
InsertSucceeds ==
  /\ insertsInFlight > 0
  /\ InsertRow(tracked_products).ok
  /\ tracked_products' = InsertRow(tracked_products).rows
  /\ insertsInFlight' = insertsInFlight - 1
  /\ isTracked' = TRUE
  /\ dialogOpen' = FALSE
  /\ lastToast' = "Success"
  /\ upsertsInFlight' = IF product # Null THEN upsertsInFlight + 1 ELSE upsertsInFlight
  /\ UNCHANGED <<user, navigatedToAuth, user_preferences, deletesInFlight, trackCalls,
                 untrackCalls>>

\* A run that does not throw on the error of the insert, and goes on to the
\* upsert of the preference.
InsertFailsAndGoesOn ==
  /\ insertsInFlight > 0
  /\ insertsInFlight' = insertsInFlight - 1
  /\ isTracked' = TRUE
  /\ dialogOpen' = FALSE
  /\ lastToast' = "Success"
  /\ upsertsInFlight' = IF product # Null THEN upsertsInFlight + 1 ELSE upsertsInFlight
  /\ UNCHANGED <<user, navigatedToAuth, tracked_products, user_preferences,
                 deletesInFlight, trackCalls, untrackCalls>>

\* The insert is answered with an error (the backend rejects the row, or the
\* request fails): the run throws, shows the error and ends.
InsertFails ==
  /\ insertsInFlight > 0
  /\ insertsInFlight' = insertsInFlight - 1
  /\ lastToast' = "Error"
  /\ UNCHANGED <<user, isTracked, dialogOpen, navigatedToAuth, tracked_products,
                 user_preferences, upsertsInFlight, deletesInFlight, trackCalls,
                 untrackCalls>>

\* The upsert of the preference is answered: applied, or failed.  Its result is
\* not read; a rejected promise is caught and shown.  Nothing else is done.
PreferenceUpsertDone ==
  /\ upsertsInFlight > 0
  /\ upsertsInFlight' = upsertsInFlight - 1
  /\ \E outcome \in {"applied", "error", "rejected"} :
       /\ user_preferences' = IF outcome = "applied"
                              THEN UpsertPreference(user_preferences)
                              ELSE user_preferences
       /\ lastToast' = IF outcome = "rejected" THEN "Error" ELSE lastToast
  /\ UNCHANGED <<user, isTracked, dialogOpen, navigatedToAuth, tracked_products,
                 insertsInFlight, deletesInFlight, trackCalls, untrackCalls>>

\* untrackProduct up to its await: the delete is sent.  The button that calls it
\* is shown while isTracked is true.
UntrackProduct ==
  /\ PageShown
  /\ isTracked
  /\ user # Null
  /\ untrackCalls < MaxUntrackCalls
  /\ untrackCalls' = untrackCalls + 1
  /\ deletesInFlight' = deletesInFlight + 1
  /\ UNCHANGED <<user, isTracked, dialogOpen, lastToast, navigatedToAuth,
                 tracked_products, user_preferences, insertsInFlight, upsertsInFlight,
                 trackCalls>>

\* The delete is answered: done, or failed with the rows left.
DeleteDone ==
  /\ deletesInFlight > 0
  /\ deletesInFlight' = deletesInFlight - 1
  /\ \/ /\ tracked_products' = DeleteRows(tracked_products)
        /\ isTracked' = FALSE
        /\ lastToast' = "Success"
     \/ /\ lastToast' = "Error"
        /\ UNCHANGED <<tracked_products, isTracked>>
  /\ UNCHANGED <<user, dialogOpen, navigatedToAuth, user_preferences, insertsInFlight,
                 upsertsInFlight, trackCalls, untrackCalls>>

TrackInit ==
  /\ user = Null
  /\ isTracked = FALSE
  /\ dialogOpen = FALSE
  /\ lastToast = "none"
  /\ navigatedToAuth = FALSE
  /\ tracked_products = 0
  /\ user_preferences = 0
  /\ insertsInFlight = 0
  /\ upsertsInFlight = 0
  /\ deletesInFlight = 0
  /\ trackCalls = 0
  /\ untrackCalls = 0

(***************************************************************************)
(* The remote analysis proxy: one request, from its arrival to its         *)
(* response.                                                               *)
(***************************************************************************)
VARIABLES
  proxyPc,         \* "idle", "upstream" (awaiting fetch) or "done"
  proxyRequest,    \* the request being served, or null
  proxyLocals,     \* the locals of the handler once it has computed them
  upstreamCalls,   \* the requests sent to the gateway
  upstreamReply,   \* what came back from the gateway, or null
  proxyResponses   \* the responses returned to the caller

proxyVars == <<proxyPc, proxyRequest, proxyLocals, upstreamCalls, upstreamReply,
               proxyResponses>>

\* A request: its method, whether req.json() yields the fields the handler reads,
\* and whether LOVABLE_API_KEY is set when it is served.
Request(method, wellFormed, keySet) ==
  [method |-> method, wellFormed |-> wellFormed, keySet |-> keySet]

\* The status codes the gateway answers with.
UpstreamStatuses == {200, 402, 429, 500, 503}

\* response.ok
IsOk(status) == status \in 200..299

\* Replies of the language model (data.choices[0].message.content).
ReplyMarked == <<"1", ".", " ", "S", "u", "m", "m", "a", "r", "y", "\n", "G", "o", "o", "d", " ", "d", "e", "a", "l", " ", "a", "t", " ", "t", "h", "i", "s", " ", "p", "r", "i", "c", "e", ".", "\n", "2", ".", " ", "D", "e", "t", "a", "i", "l", "e", "d", " ", "r", "e", "c", "o", "m", "m", "e", "n", "d", "a", "t", "i", "o", "n", "\n", "P", "r", "i", "c", "e", " ", "i", "s", " ", "n", "e", "a", "r", " ", "i", "t", "s", " ", "l", "o", "w", ".", "\n", "B", "u", "y", " ", "n", "o", "w", ".">>
ReplyTwoParagraphs == <<"G", "o", "o", "d", " ", "d", "e", "a", "l", " ", "a", "t", " ", "t", "h", "i", "s", " ", "p", "r", "i", "c", "e", ".", "\n", "\n", "P", "r", "i", "c", "e", " ", "i", "s", " ", "n", "e", "a", "r", " ", "i", "t", "s", " ", "l", "o", "w", ".">>
ReplyOneParagraph == <<"G", "o", "o", "d", " ", "d", "e", "a", "l", " ", "a", "t", " ", "t", "h", "i", "s", " ", "p", "r", "i", "c", "e", ".">>
ReplyTexts == {ReplyMarked, ReplyTwoParagraphs, ReplyOneParagraph}

\* The bodies of POST requests: a well-formed {product, priceHistory, reviews}.
RequestBodies == [product : Products, priceHistory : Histories, reviews : ReviewLists]

JsonResponse(status, body) == [status |-> status, body |-> body]

\* The catch block: status 500 with error.message.
\* A catch block that forgets the status, so that the response is a 200.
ErrorResponseOk(message) == JsonResponse(200, [error |-> message])

ErrorResponse(message) == JsonResponse(500, [error |-> message])

\* priceRange > 0, the guard of the division by priceRange in the handler
ProxyRangeIsPositive(priceRange) == Gt(priceRange, Num(0))

\* The price statistics and the score the handler computes from the body.
ProxyLocals(body) ==
  LET prices == PricesOf(body.priceHistory)
      lowestPrice == MathMin(prices)
      highestPrice == MathMax(prices)
      avgPrice == Div(SumOf(prices), Num(Len(prices)))
      currentPrice == Num(body.product.current_price)
      priceRange == Sub(highestPrice, lowestPrice)
      pricePosition ==
        IF ProxyRangeIsPositive(priceRange)
        THEN Mul(Div(Sub(currentPrice, lowestPrice), priceRange), Num(100))
        ELSE Num(50)
      rs == body.reviews
      avgRating ==
        IF Len(rs) > 0 THEN Div(SumOf(RatingsOf(rs)), Num(Len(rs))) ELSE Num(0)
      positiveReviews == SelectSeq(rs, LAMBDA r : r.rating >= 4)
      negativeReviews == SelectSeq(rs, LAMBDA r : r.rating < 4)
  IN  [pricesLength |-> Len(prices),
       lowestPrice |-> lowestPrice, highestPrice |-> highestPrice,
       avgPrice |-> avgPrice, currentPrice |-> currentPrice,
       priceRange |-> priceRange,
       dividedByRange |-> ProxyRangeIsPositive(priceRange),
       pricePosition |-> pricePosition,
       worthBuyingScore |-> MathRound(Sub(Num(100), pricePosition)),
       avgRating |-> avgRating,
       positiveReviews |-> Len(positiveReviews),
       negativeReviews |-> Len(negativeReviews),
       samplePositive |-> SliceFirst(positiveReviews, 3),
       sampleNegative |-> SliceFirst(negativeReviews, 2)]

\* line.includes('summary') || line.includes('Summary') || line.match(/^1\./)
IsSummaryMarker(line) ==
  \/ Includes(line, <<"s", "u", "m", "m", "a", "r", "y">>)
  \/ Includes(line, <<"S", "u", "m", "m", "a", "r", "y">>)
  \/ StartsWith(line, <<"1", ".">>)

\* line.includes('detailed') || line.includes('Detailed')
\*   || line.includes('recommendation') || line.match(/^2\./)
IsDetailedMarker(line) ==
  \/ Includes(line, <<"d", "e", "t", "a", "i", "l", "e", "d">>)
  \/ Includes(line, <<"D", "e", "t", "a", "i", "l", "e", "d">>)
  \/ Includes(line, <<"r", "e", "c", "o", "m", "m", "e", "n", "d", "a", "t", "i", "o", "n">>)
  \/ StartsWith(line, <<"2", ".">>)

\* The loop over the non-blank lines: st is [summary, detailed, inSummary, inDetailed].
RECURSIVE ScanLines(_, _)
ScanLines(lines, st) ==
  IF lines = <<>> THEN st
  ELSE LET line == Head(lines)
       IN  IF IsSummaryMarker(line)
           THEN ScanLines(Tail(lines), [st EXCEPT !.inSummary = TRUE, !.inDetailed = FALSE])
           ELSE IF IsDetailedMarker(line)
           THEN ScanLines(Tail(lines), [st EXCEPT !.inSummary = FALSE, !.inDetailed = TRUE])
           ELSE ScanLines(Tail(lines),
                  [st EXCEPT
                     !.summary = IF st.inSummary /\ Trim(line) # <<>>
                                 THEN @ \o Trim(line) \o <<" ">> ELSE @,
                     !.detailed = IF st.inDetailed /\ Trim(line) # <<>>
                                  THEN @ \o Trim(line) \o <<" ">> ELSE @])

\* The characters analysisText.substring cuts the text at.
FallbackCut == 200

\* A parsing without the fallback: the fields of the loop are returned as they are.
ParseReplyNoFallback(analysisText) ==
  LET lines == SelectSeq(Split(analysisText, <<"\n">>), LAMBDA l : Trim(l) # <<>>)
      st == ScanLines(lines, [summary |-> <<>>, detailed |-> <<>>,
                              inSummary |-> FALSE, inDetailed |-> FALSE])
  IN  [summary |-> Trim(st.summary), detailedRecommendation |-> Trim(st.detailed)]

\* The summary and the detailed recommendation parsed from the reply.
ParseReply(analysisText) ==
  LET lines == SelectSeq(Split(analysisText, <<"\n">>), LAMBDA l : Trim(l) # <<>>)
      st == ScanLines(lines, [summary |-> <<>>, detailed |-> <<>>,
                              inSummary |-> FALSE, inDetailed |-> FALSE])
      parts == Split(analysisText, <<"\n", "\n">>)
      fallback == st.summary = <<>> \/ st.detailed = <<>>
      summary ==
        IF ~fallback THEN st.summary
        ELSE IF parts[1] # <<>> THEN parts[1] ELSE SubstringTo(analysisText, FallbackCut)
      detailed ==
        IF ~fallback THEN st.detailed
        ELSE IF Len(parts) >= 2 /\ parts[2] # <<>> THEN parts[2]
        ELSE SubstringFrom(analysisText, FallbackCut)
  IN  [summary |-> Trim(summary), detailedRecommendation |-> Trim(detailed)]

\* A handling of a status that is not OK which throws for every status.
NotOkResponseGeneric(status) == ErrorResponse("AI analysis failed")

\* The response to a gateway status that is not OK: 429 and 402 are passed on,
\* any other status is thrown and reaches the catch block.
NotOkResponse(status) ==
  IF status = 429
  THEN JsonResponse(429, [error |-> "Rate limit exceeded. Please try again later."])
  ELSE IF status = 402
  THEN JsonResponse(402, [error |-> "AI credits exhausted. Please add credits to continue."])
  ELSE ErrorResponse("AI analysis failed")

\* An OPTIONS request is answered at once, with no body.
ProxyOptions ==
  /\ proxyPc = "idle"
  /\ proxyPc' = "done"
  /\ \E keySet \in BOOLEAN : proxyRequest' = Some(Request("OPTIONS", TRUE, keySet))
  /\ proxyResponses' = Append(proxyResponses, JsonResponse(200, Null))
  /\ UNCHANGED <<proxyLocals, upstreamCalls, upstreamReply>>

\* A request whose body req.json() cannot parse, or whose body lacks the fields
\* the handler reads: the exception reaches the catch block.
ProxyPostMalformed ==
  /\ proxyPc = "idle"
  /\ proxyPc' = "done"
  /\ \E keySet \in BOOLEAN : proxyRequest' = Some(Request("POST", FALSE, keySet))
  /\ proxyResponses' = Append(proxyResponses, ErrorResponse("Unexpected end of JSON input"))
  /\ UNCHANGED <<proxyLocals, upstreamCalls, upstreamReply>>

\* LOVABLE_API_KEY is not set: the handler throws before it computes anything.
ProxyPostNoKey ==
  /\ proxyPc = "idle"
  /\ proxyPc' = "done"
  /\ proxyRequest' = Some(Request("POST", TRUE, FALSE))
  /\ proxyResponses' = Append(proxyResponses, ErrorResponse("LOVABLE_API_KEY is not configured"))
  /\ UNCHANGED <<proxyLocals, upstreamCalls, upstreamReply>>

\* A well-formed request with the key set: the statistics are computed, the prompt
\* is built and sent to the gateway.
ProxyPost ==
  /\ proxyPc = "idle"
  /\ proxyRequest' = Some(Request("POST", TRUE, TRUE))
  /\ \E body \in RequestBodies : proxyLocals' = Some(ProxyLocals(body))
  /\ upstreamCalls' = upstreamCalls + 1
  /\ proxyPc' = "upstream"
  /\ UNCHANGED <<upstreamReply, proxyResponses>>

\* fetch rejects (the gateway cannot be reached).
UpstreamUnreachable ==
  /\ proxyPc = "upstream"
  /\ proxyPc' = "done"
  /\ upstreamReply' = Some(0)      \* no status: the request got no response
  /\ proxyResponses' = Append(proxyResponses, ErrorResponse("error sending request"))
  /\ UNCHANGED <<proxyRequest, proxyLocals, upstreamCalls>>

\* The gateway answers with a status that is not OK.
UpstreamNotOk ==
  /\ proxyPc = "upstream"
  /\ proxyPc' = "done"
  /\ \E status \in UpstreamStatuses :
       /\ ~IsOk(status)
       /\ upstreamReply' = Some(status)
       /\ proxyResponses' = Append(proxyResponses, NotOkResponse(status))
  /\ UNCHANGED <<proxyRequest, proxyLocals, upstreamCalls>>

\* The gateway answers OK with a body that holds no choices[0].message.content.
UpstreamOkMalformed ==
  /\ proxyPc = "upstream"
  /\ proxyPc' = "done"
  /\ \E status \in UpstreamStatuses : IsOk(status) /\ upstreamReply' = Some(status)
  /\ proxyResponses' = Append(proxyResponses,
       ErrorResponse("Cannot read properties of undefined"))
  /\ UNCHANGED <<proxyRequest, proxyLocals, upstreamCalls>>

\* The gateway answers OK with a reply: it is parsed and returned with the score.
UpstreamOkFrom(texts) ==
  /\ proxyPc = "upstream"
  /\ proxyPc' = "done"
  /\ \E status \in UpstreamStatuses, analysisText \in texts :
       /\ IsOk(status)
       /\ upstreamReply' = Some(status)
       /\ LET parsed == ParseReply(analysisText)
          IN  proxyResponses' = Append(proxyResponses,
                JsonResponse(200,
                  [worthBuyingScore |-> proxyLocals[1].worthBuyingScore,
                   summary |-> parsed.summary,
                   detailedRecommendation |-> parsed.detailedRecommendation,
                   analysisText |-> analysisText]))
  /\ UNCHANGED <<proxyRequest, proxyLocals, upstreamCalls>>

UpstreamOk == UpstreamOkFrom(ReplyTexts)

ProxyInit ==
  /\ proxyPc = "idle"
  /\ proxyRequest = Null
  /\ proxyLocals = Null
  /\ upstreamCalls = 0
  /\ upstreamReply = Null
  /\ proxyResponses = <<>>

(***************************************************************************)
(* useSentimentAnalyzer (the hook) and the effect of the page that derives *)
(* sentimentSummary from the reviews.                                      *)
(***************************************************************************)
VARIABLES
  isLoading,          \* useState(false) of the hook
  pipelineRef,        \* useRef(null): the memoized classifier
  runs,               \* the runs of the effect that await analyzeBatch
  sentimentSummary,   \* useState({positive: 0, ...})
  batchLocals,        \* id, texts and results of the run that last stored a summary
  analyzeTextCalls,   \* the calls of analyzeText so far
  lastTextResult,     \* what analyzeText last returned, or null
  effectRuns,         \* the runs of the effect so far
  analyzeBatchCalls,  \* the calls of analyzeBatch so far
  pipelineLoads,      \* the calls of pipeline(...) so far
  classifierCalls     \* the calls of a classifier so far

sentimentVars == <<isLoading, pipelineRef, runs, sentimentSummary, batchLocals,
                   analyzeTextCalls, lastTextResult, effectRuns, analyzeBatchCalls,
                   pipelineLoads, classifierCalls>>

\* The bounds of the sentiment model: the runs of the effect in a behaviour.
MaxEffectRuns == 2

\* /(4|5)\s*star/.test(l) for digits = {"4", "5"}, /3\s*star/.test(l) for {"3"}:
\* a digit, then white space, then "star".
RECURSIVE SpacesThenStar(_)
SpacesThenStar(s) ==
  \/ StartsWith(s, <<"s", "t", "a", "r">>)
  \/ s # <<>> /\ Head(s) \in WhiteSpace /\ SpacesThenStar(Tail(s))

MatchesStar(l, digits) ==
  \E i \in 1..Len(l) : l[i] \in digits /\ SpacesThenStar(SubstringFrom(l, i))

\* Map model-specific labels (e.g., "1 star".."5 stars") to generic ones.
MapLabel(label, score) ==
  LET l == ToLowerCase(label)
  IN  IF MatchesStar(l, {"4", "5"}) \/ Includes(l, <<"p", "o", "s", "i", "t", "i", "v", "e">>)
      THEN [label |-> <<"P", "O", "S", "I", "T", "I", "V", "E">>, score |-> score]
      ELSE IF MatchesStar(l, {"3"}) \/ Includes(l, <<"n", "e", "u", "t", "r", "a", "l">>)
      THEN [label |-> <<"N", "E", "U", "T", "R", "A", "L">>, score |-> score]
      ELSE [label |-> <<"N", "E", "G", "A", "T", "I", "V", "E">>, score |-> score]

\* mapLabel(raw?.label, raw?.score ?? 0.5) for one element of the classifier's
\* output; an element without label and score is Null.
MapRaw(raw) ==
  IF raw = Null THEN MapLabel(<<>>, Norm(1, 2)) ELSE MapLabel(raw[1].label, raw[1].score)

\* The labels and the scores a classifier answers with.
RawLabels == {<<"1", " ", "s", "t", "a", "r">>, <<"2", " ", "s", "t", "a", "r", "s">>, <<"3", " ", "s", "t", "a", "r", "s">>, <<"4", " ", "s", "t", "a", "r", "s">>, <<"5", " ", "s", "t", "a", "r", "s">>}

RawScores == {Norm(1, 5), Num(1)}

RawResults == {Some(r) : r \in [label : RawLabels, score : RawScores]}

\* reviews.map(r => r.review_text).filter(Boolean).slice(0, 20)
BatchLimit == 20

\* The texts of the reviews without the slice.
TextsOfUnsliced(rs) ==
  SelectSeq([i \in 1..Len(rs) |-> rs[i].review_text], LAMBDA t : t # "")

TextsOf(rs) ==
  SliceFirst(SelectSeq([i \in 1..Len(rs) |-> rs[i].review_text], LAMBDA t : t # ""),
             BatchLimit)

\* An effect without the early return.
NeverSkipsBatch(texts) == FALSE

\* if (texts.length === 0) return
SkipsBatch(texts) == Len(texts) = 0

\* results.forEach(...): the tallies after the results from index idx on.
RECURSIVE Tally(_, _, _, _)
Tally(results, texts, idx, acc) ==
  IF idx > Len(results) THEN acc
  ELSE LET r == results[idx]
           lbl == ToLowerCase(r.label)
       IN  IF Includes(lbl, <<"p", "o", "s">>)
           THEN Tally(results, texts, idx + 1,
                  [acc EXCEPT !.pos = @ + 1, !.sum = Add(@, r.score),
                              !.posEx = IF Len(@) < 2 THEN Append(@, texts[idx]) ELSE @])
           ELSE IF Includes(lbl, <<"n", "e", "g">>)
           THEN Tally(results, texts, idx + 1,
                  [acc EXCEPT !.neg = @ + 1, !.sum = Sub(@, r.score),
                              !.negEx = IF Len(@) < 2 THEN Append(@, texts[idx]) ELSE @])
           ELSE Tally(results, texts, idx + 1, [acc EXCEPT !.neu = @ + 1])

\* An average that stays on the scale -1..1: sum / texts.length.
AvgScoreUnshifted(sum, texts) ==
  IF Len(texts) # 0 THEN Div(sum, Num(Len(texts))) ELSE Norm(1, 2)

\* An average without the division by 2: sum / texts.length + 1.
AvgScoreUnhalved(sum, texts) ==
  IF Len(texts) # 0 THEN Add(Div(sum, Num(Len(texts))), Num(1)) ELSE Norm(1, 2)

\* texts.length ? (sum / texts.length + 1) / 2 : 0.5
AvgScore(sum, texts) ==
  IF Len(texts) # 0
  THEN Div(Add(Div(sum, Num(Len(texts))), Num(1)), Num(2))
  ELSE Norm(1, 2)

\* A labelling whose upper threshold is inclusive: avgScore >= 0.6.
OverallInclusive(avgScore) ==
  IF ~Lt(avgScore, Norm(6, 10)) THEN "Positive"
  ELSE IF Lt(avgScore, Norm(4, 10)) THEN "Negative"
  ELSE "Neutral"

\* avgScore > 0.6 ? 'Positive' : avgScore < 0.4 ? 'Negative' : 'Neutral'
Overall(avgScore) ==
  IF Gt(avgScore, Norm(6, 10)) THEN "Positive"
  ELSE IF Lt(avgScore, Norm(4, 10)) THEN "Negative"
  ELSE "Neutral"

\* The value handed to setSentimentSummary for the results of a batch.
SummaryOf(results, texts) ==
  LET acc == Tally(results, texts, 1,
                   [pos |-> 0, neg |-> 0, neu |-> 0, sum |-> Num(0),
                    posEx |-> <<>>, negEx |-> <<>>])
      avgScore == AvgScore(acc.sum, texts)
  IN  [positive |-> acc.pos, negative |-> acc.neg, neutral |-> acc.neu,
       avgScore |-> avgScore, overall |-> Overall(avgScore),
       examples |-> [pos |-> acc.posEx, neg |-> acc.negEx]]

\* The review lists of the sentiment model: the texts vary, "" is an empty text.
ReviewTexts == {"", "great", "poor"}

TextReview(t) == [rating |-> 5, review_text |-> t]

\* Every list of up to MaxReviews reviews: the batches the aggregator is given.
BatchReviewLists == SeqsUpTo({TextReview(t) : t \in ReviewTexts}, MaxReviews)

\* The lists setReviews is called with while batches are in flight: no review,
\* a review without text, one text, two texts.
SessionReviewLists ==
  {<<>>, <<TextReview("")>>, <<TextReview("great")>>,
   <<TextReview("great"), TextReview("poor")>>}

\* An initializePipeline that never finds a memoized classifier.
NeverMemoized(ref) == FALSE

\* if (pipelineRef.current) return pipelineRef.current
IsMemoized(ref) == ref # Null

\* The effect runs with the reviews rs: it returns at once when no text is left,
\* else it calls analyzeBatch, whose initializePipeline returns the memoized
\* classifier or starts loading one.
RunEffect(rs) ==
  LET texts == TextsOf(rs)
      id == effectRuns + 1
  IN  /\ effectRuns' = id
      /\ IF SkipsBatch(texts)
         THEN UNCHANGED <<runs, isLoading, analyzeBatchCalls, pipelineLoads,
                          classifierCalls>>
         ELSE /\ analyzeBatchCalls' = analyzeBatchCalls + 1
              /\ IF IsMemoized(pipelineRef)
                 THEN /\ runs' = Append(runs, [id |-> id, kind |-> "batch",
                                               texts |-> texts,
                                               pc |-> "classifying",
                                               classifier |-> pipelineRef])
                      /\ classifierCalls' = classifierCalls + 1
                      /\ UNCHANGED <<isLoading, pipelineLoads>>
                 ELSE /\ runs' = Append(runs, [id |-> id, kind |-> "batch",
                                               texts |-> texts,
                                               pc |-> "loading",
                                               classifier |-> Some(pipelineLoads + 1)])
                      /\ isLoading' = TRUE
                      /\ pipelineLoads' = pipelineLoads + 1
                      /\ UNCHANGED classifierCalls
      /\ UNCHANGED <<pipelineRef, sentimentSummary, batchLocals, analyzeTextCalls,
                     lastTextResult>>

\* setReviews(rs): the effect, which depends on reviews, runs with the new list.
SetReviews(rs) == reviews' = rs /\ RunEffect(rs)

\* The reviews change while the page is shown.
ReviewsChange ==
  /\ effectRuns < MaxEffectRuns
  /\ \E rs \in SessionReviewLists : SetReviews(rs)

\* The reviews are set once, to any list.
ReviewsLoaded ==
  /\ effectRuns = 0
  /\ \E rs \in BatchReviewLists : SetReviews(rs)

\* The bound of the calls of analyzeText in a behaviour.
MaxTextCalls == 1

\* A user of the hook calls analyzeText: its initializePipeline returns the
\* memoized classifier, which is called at once, or starts loading one.
AnalyzeText ==
  /\ analyzeTextCalls < MaxTextCalls
  /\ analyzeTextCalls' = analyzeTextCalls + 1
  /\ IF IsMemoized(pipelineRef)
     THEN /\ runs' = Append(runs, [id |-> 0 - analyzeTextCalls', kind |-> "text",
                                   texts |-> <<"great">>, pc |-> "classifying",
                                   classifier |-> pipelineRef])
          /\ classifierCalls' = classifierCalls + 1
          /\ UNCHANGED <<isLoading, pipelineLoads>>
     ELSE /\ runs' = Append(runs, [id |-> 0 - analyzeTextCalls', kind |-> "text",
                                   texts |-> <<"great">>, pc |-> "loading",
                                   classifier |-> Some(pipelineLoads + 1)])
          /\ isLoading' = TRUE
          /\ pipelineLoads' = pipelineLoads + 1
          /\ UNCHANGED classifierCalls
  /\ UNCHANGED <<reviews, pipelineRef, sentimentSummary, batchLocals, lastTextResult,
                 effectRuns, analyzeBatchCalls>>

RemoveAt(seq, i) == SubSeq(seq, 1, i - 1) \o SubSeq(seq, i + 1, Len(seq))

\* A load that memoizes its classifier only when none is memoized yet.
PipelineLoadedKeepsFirst ==
  \E i \in 1..Len(runs) :
    /\ runs[i].pc = "loading"
    /\ pipelineRef' = IF pipelineRef # Null THEN pipelineRef ELSE runs[i].classifier
    /\ isLoading' = FALSE
    /\ runs' = [runs EXCEPT ![i].pc = "classifying"]
    /\ classifierCalls' = classifierCalls + 1
    /\ UNCHANGED <<reviews, sentimentSummary, batchLocals, analyzeTextCalls,
                   lastTextResult, effectRuns, analyzeBatchCalls, pipelineLoads>>

\* pipeline(...) resolves for run i: the classifier is memoized, the finally block
\* resets isLoading, and analyzeBatch calls the classifier with the texts.
PipelineLoaded ==
  \E i \in 1..Len(runs) :
    /\ runs[i].pc = "loading"
    /\ pipelineRef' = runs[i].classifier
    /\ isLoading' = FALSE
    /\ runs' = [runs EXCEPT ![i].pc = "classifying"]
    /\ classifierCalls' = classifierCalls + 1
    /\ UNCHANGED <<reviews, sentimentSummary, batchLocals, analyzeTextCalls,
                   lastTextResult, effectRuns, analyzeBatchCalls, pipelineLoads>>

\* A failed load that is memoized all the same.
PipelineFailsMemoized ==
  \E i \in 1..Len(runs) :
    /\ runs[i].pc = "loading"
    /\ pipelineRef' = runs[i].classifier
    /\ isLoading' = FALSE
    /\ runs' = RemoveAt(runs, i)
    /\ UNCHANGED <<reviews, sentimentSummary, batchLocals, analyzeTextCalls,
                   lastTextResult, effectRuns, analyzeBatchCalls, pipelineLoads,
                   classifierCalls>>

\* pipeline(...) rejects for run i: the finally block resets isLoading, the error
\* is rethrown by analyzeBatch and logged by the effect, which ends.
PipelineFails ==
  \E i \in 1..Len(runs) :
    /\ runs[i].pc = "loading"
    /\ isLoading' = FALSE
    /\ runs' = RemoveAt(runs, i)
    /\ UNCHANGED <<reviews, pipelineRef, sentimentSummary, batchLocals,
                   analyzeTextCalls, lastTextResult, effectRuns, analyzeBatchCalls,
                   pipelineLoads, classifierCalls>>

\* The classifier answers run i with one result per text.  analyzeBatch maps the
\* results and the effect tallies them and stores the summary; analyzeText maps
\* the result and returns it.
AnswerReturns(i, outs) ==
  /\ LET results == [k \in 1..Len(outs) |-> MapRaw(outs[k])]
     IN  IF runs[i].kind = "batch"
         THEN /\ sentimentSummary' = SummaryOf(results, runs[i].texts)
              /\ batchLocals' = Some([id |-> runs[i].id, texts |-> runs[i].texts,
                                      results |-> results])
              /\ UNCHANGED lastTextResult
         ELSE /\ lastTextResult' = Some(results[1])
              /\ UNCHANGED <<sentimentSummary, batchLocals>>
  /\ UNCHANGED analyzeTextCalls
  /\ runs' = RemoveAt(runs, i)
  /\ UNCHANGED <<reviews, isLoading, pipelineRef, effectRuns, analyzeBatchCalls,
                 pipelineLoads, classifierCalls>>

ClassifierAnswers ==
  \E i \in 1..Len(runs) :
    /\ runs[i].pc = "classifying"
    /\ \E outs \in [1..Len(runs[i].texts) -> RawResults] : AnswerReturns(i, outs)

\* The same step for a classifier that is one of the functions cs from text to
\* result: equal texts get equal results.
ClassifierAnswersByText(cs) ==
  \E i \in 1..Len(runs) :
    /\ runs[i].pc = "classifying"
    /\ \E c \in cs :
         AnswerReturns(i, [k \in 1..Len(runs[i].texts) |-> c[runs[i].texts[k]]])

\* The classifier rejects for run i: analyzeBatch or analyzeText rethrows, the
\* effect logs the error and ends.
ClassifierFails ==
  \E i \in 1..Len(runs) :
    /\ runs[i].pc = "classifying"
    /\ runs' = RemoveAt(runs, i)
    /\ UNCHANGED <<reviews, isLoading, pipelineRef, sentimentSummary, batchLocals,
                   analyzeTextCalls, lastTextResult, effectRuns, analyzeBatchCalls,
                   pipelineLoads, classifierCalls>>

SentimentInit ==
  /\ isLoading = FALSE
  /\ pipelineRef = Null
  /\ runs = <<>>
  /\ sentimentSummary =
       [positive |-> 0, negative |-> 0, neutral |-> 0, avgScore |-> Num(0),
        overall |-> "Neutral", examples |-> [pos |-> <<>>, neg |-> <<>>]]
  /\ batchLocals = Null
  /\ analyzeTextCalls = 0
  /\ lastTextResult = Null
  /\ effectRuns = 0
  /\ analyzeBatchCalls = 0
  /\ pipelineLoads = 0
  /\ classifierCalls = 0

(***************************************************************************)
(* The specifications.  The scorer of the page, the legacy analysis of the *)
(* page, the sentiment effect and the proxy read the product, the history  *)
(* and the reviews, and write disjoint parts of the state that none of the *)
(* others reads; each specification follows one of them.  Spec follows the *)
(* scorer of the page or, in a behaviour where the page is never loaded,   *)
(* one request to the proxy.                                               *)
(***************************************************************************)
PageInit ==
  /\ product = Null
  /\ priceHistory = <<>>
  /\ reviews = <<>>
  /\ loading = TRUE
  /\ analysis = Null
  /\ aiAnalysis = Null
  /\ loadingAnalysis = FALSE
  /\ loadingAIAnalysis = FALSE
  /\ aiLocals = Null
  /\ upsertInFlight = Null
  /\ product_analysis = Null
  /\ priceDrops = <<>>

vars == <<pageVars, proxyVars, sentimentVars, trackVars>>

Init == PageInit /\ ProxyInit /\ SentimentInit /\ TrackInit

Next ==
  \/ proxyPc = "idle" /\ FetchProductData /\ UNCHANGED <<proxyVars, sentimentVars>>
  \/ proxyPc = "idle" /\ FetchProductDataFails /\ UNCHANGED <<proxyVars, sentimentVars>>
  \/ AnalyzeProductWithAI /\ UNCHANGED <<proxyVars, sentimentVars, trackVars>>
  \/ loading /\ ProxyOptions /\ UNCHANGED <<pageVars, sentimentVars, trackVars>>
  \/ loading /\ ProxyPostMalformed /\ UNCHANGED <<pageVars, sentimentVars, trackVars>>
  \/ loading /\ ProxyPostNoKey /\ UNCHANGED <<pageVars, sentimentVars, trackVars>>
  \/ loading /\ ProxyPost /\ UNCHANGED <<pageVars, sentimentVars, trackVars>>
  \/ UpstreamUnreachable /\ UNCHANGED <<pageVars, sentimentVars, trackVars>>
  \/ UpstreamNotOk /\ UNCHANGED <<pageVars, sentimentVars, trackVars>>
  \/ UpstreamOkMalformed /\ UNCHANGED <<pageVars, sentimentVars, trackVars>>
  \/ UpstreamOk /\ UNCHANGED <<pageVars, sentimentVars, trackVars>>

Spec == Init /\ [][Next]_vars

\* The page with the legacy analysis.
NextLegacy ==
  \/ FetchProductData /\ UNCHANGED <<proxyVars, sentimentVars>>
  \/ FetchProductDataFails /\ UNCHANGED <<proxyVars, sentimentVars>>
  \/ AnalyzeProduct /\ UNCHANGED <<proxyVars, sentimentVars, trackVars>>
  \/ AnalyzeProductUpsertDone /\ UNCHANGED <<proxyVars, sentimentVars, trackVars>>

SpecLegacy == Init /\ [][NextLegacy]_vars

\* The page with the sentiment effect.
sentimentFrame ==
  <<product, priceHistory, loading, analysis, aiAnalysis, loadingAnalysis,
    loadingAIAnalysis, aiLocals, upsertInFlight, product_analysis, priceDrops,
    proxyVars, trackVars>>

NextSentiment ==
  \/ ReviewsChange /\ UNCHANGED sentimentFrame
  \/ PipelineLoaded /\ UNCHANGED sentimentFrame
  \/ PipelineFails /\ UNCHANGED sentimentFrame
  \/ ClassifierAnswers /\ UNCHANGED sentimentFrame
  \/ ClassifierFails /\ UNCHANGED sentimentFrame

SpecSentiment == Init /\ [][NextSentiment]_vars

\* The page with one batch of the sentiment effect, for any list of reviews.
NextAggregate ==
  \/ ReviewsLoaded /\ UNCHANGED sentimentFrame
  \/ PipelineLoaded /\ UNCHANGED sentimentFrame
  \/ PipelineFails /\ UNCHANGED sentimentFrame
  \/ ClassifierAnswers /\ UNCHANGED sentimentFrame
  \/ ClassifierFails /\ UNCHANGED sentimentFrame

SpecAggregate == Init /\ [][NextAggregate]_vars

\* The hook with its two callers: the effect, on reviews with at most one text,
\* and calls of analyzeText.  What the classifier answers plays no part in the
\* loading of the pipeline: here it answers every text "5 stars" with score 1.
FiveStars == [label |-> <<"P", "O", "S", "I", "T", "I", "V", "E">>, score |-> Num(1)]

NextHook ==
  \/ ReviewsChange /\ Len(reviews') <= 1 /\ UNCHANGED sentimentFrame
  \/ AnalyzeText /\ UNCHANGED sentimentFrame
  \/ PipelineLoaded /\ UNCHANGED sentimentFrame
  \/ PipelineFails /\ UNCHANGED sentimentFrame
  \/ /\ ClassifierAnswers
     /\ lastTextResult' \in {Null, Some(FiveStars)}
     /\ batchLocals' # Null => batchLocals'[1].results = <<FiveStars>>
     /\ UNCHANGED sentimentFrame
  \/ ClassifierFails /\ UNCHANGED sentimentFrame

SpecHook == Init /\ [][NextHook]_vars

\* The page with both analyses, on a history of no, one or two points.  The
\* request analyzeProduct awaits is answered in the end, successfully or not.
AnalyzeHistories ==
  {<<>>, <<[price |-> 80]>>, <<[price |-> 80], [price |-> 100]>>}

NextAnalyze ==
  \/ /\ FetchProductDataFrom({[current_price |-> 100]}, AnalyzeHistories, ReviewLists)
     /\ UNCHANGED <<proxyVars, sentimentVars>>
  \/ FetchProductDataFails /\ UNCHANGED <<proxyVars, sentimentVars>>
  \/ AnalyzeProduct /\ UNCHANGED <<proxyVars, sentimentVars, trackVars>>
  \/ AnalyzeProductUpsertDone /\ UNCHANGED <<proxyVars, sentimentVars, trackVars>>
  \/ AnalyzeProductWithAI /\ UNCHANGED <<proxyVars, sentimentVars, trackVars>>

SpecAnalyze ==
  /\ Init
  /\ [][NextAnalyze]_vars
  /\ WF_vars(AnalyzeProductUpsertDone /\ UNCHANGED <<proxyVars, sentimentVars, trackVars>>)

\* The page on histories of up to MaxBuyLen points whose prices lie 30, 90, 100,
\* 120 or 190 apart, for a current price within, below or above them.
MaxBuyLen == 5

BuyPrices == {10, 80, 110, 200}

BuyHistories == SeqsUpTo([price : BuyPrices], MaxBuyLen)

NextBuy ==
  \/ /\ FetchProductDataFrom(Products, BuyHistories, {<<>>})
     /\ UNCHANGED <<proxyVars, sentimentVars>>
  \/ FetchProductDataFails /\ UNCHANGED <<proxyVars, sentimentVars>>

SpecBuy == Init /\ [][NextBuy]_vars

\* fetchProductData on histories of up to MaxSteps steps from a first price of
\* 1000: a step takes 100 off (a drop of 5% or more), takes 10 off (a drop below
\* 5%) or adds 100; and on the histories 100, 95 (a drop of exactly 5%) and 100, 96.
MaxSteps == 7

PriceSteps == {0 - 100, 0 - 10, 100}

RECURSIVE Walk(_, _)
Walk(from, steps) ==
  IF steps = <<>> THEN <<[price |-> from]>>
  ELSE <<[price |-> from]>> \o Walk(from + Head(steps), Tail(steps))

DropHistories ==
  {Walk(1000, steps) : steps \in SeqsUpTo(PriceSteps, MaxSteps)}
  \cup {<<[price |-> 100], [price |-> 95]>>, <<[price |-> 100], [price |-> 96]>>}

NextDrops ==
  /\ FetchProductDataFrom({[current_price |-> 100]}, DropHistories, {<<>>})
  /\ UNCHANGED <<proxyVars, sentimentVars>>

SpecDrops == Init /\ [][NextDrops]_vars

\* The proxy on replies made of up to MaxLines lines, and on replies of one
\* paragraph about as long as the cut of the fallback.
MaxLines == 4

ReplyLines ==
  {<<"1", ".", " ", "S", "u", "m", "m", "a", "r", "y">>,
   <<"2", ".", " ", "D", "e", "t", "a", "i", "l", "e", "d">>,
   <<"S", "u", "m", "m", "a", "r", "y", ":", " ", "o", "k">>,
   <<"G", "o", "o", "d">>,
   <<" ", "B", "u", "y", " ">>,
   <<>>}

RECURSIVE JoinLines(_)
JoinLines(ls) ==
  IF ls = <<>> THEN <<>>
  ELSE IF Len(ls) = 1 THEN ls[1]
  ELSE ls[1] \o <<"\n">> \o JoinLines(Tail(ls))

\* A reply of one paragraph: n - 1 times "x", then "y".
LongReply(n) == [i \in 1..n |-> IF i = n THEN "y" ELSE "x"]

ParseTexts ==
  {JoinLines(ls) : ls \in SeqsUpTo(ReplyLines, MaxLines)}
  \cup {LongReply(n) : n \in (FallbackCut - 1)..(FallbackCut + 2)}

NextParse ==
  \/ /\ ProxyPost
     /\ proxyLocals' = Some(ProxyLocals([product |-> [current_price |-> 100],
                                          priceHistory |-> <<>>, reviews |-> <<>>]))
     /\ UNCHANGED <<pageVars, sentimentVars, trackVars>>
  \/ UpstreamOkFrom(ParseTexts) /\ UNCHANGED <<pageVars, sentimentVars, trackVars>>

SpecParse == Init /\ [][NextParse]_vars

\* The page with one batch of the sentiment effect on lists of reviews that reach
\* beyond the limit of a batch, classified by a function of the text.
MaxShort == 3
MaxExtra == 2

ExampleTexts == {"great", "poor", "fine"}

\* "5 stars", "3 stars" and "1 star" with score 1.
ExampleRaws ==
  {Some([label |-> l, score |-> Num(1)]) :
     l \in {<<"5", " ", "s", "t", "a", "r", "s">>, <<"3", " ", "s", "t", "a", "r", "s">>,
            <<"1", " ", "s", "t", "a", "r">>}}

TextClassifiers == [ExampleTexts -> ExampleRaws]

\* n reviews: the k-th says "poor", the j-th "fine", the e-th has no text, the
\* others say "great" (0: no such review).
PatternReviews(n, k, j, e) ==
  [i \in 1..n |-> TextReview(IF i = e THEN "" ELSE IF i = k THEN "poor"
                             ELSE IF i = j THEN "fine" ELSE "great")]

ExampleReviewLists ==
  SeqsUpTo({TextReview(t) : t \in ExampleTexts \cup {""}}, MaxShort)
  \cup {PatternReviews(n, k, j, e) :
          n \in (BatchLimit - 1)..(BatchLimit + MaxExtra), k \in {0, 1, 3, BatchLimit + 1},
          j \in {0, 2, BatchLimit}, e \in {0, 2, BatchLimit}}

NextExamples ==
  \/ /\ effectRuns = 0
     /\ \E rs \in ExampleReviewLists : SetReviews(rs)
     /\ UNCHANGED sentimentFrame
  \/ PipelineLoaded /\ UNCHANGED sentimentFrame
  \/ PipelineFails /\ UNCHANGED sentimentFrame
  \/ ClassifierAnswersByText(TextClassifiers) /\ UNCHANGED sentimentFrame
  \/ ClassifierFails /\ UNCHANGED sentimentFrame

SpecExamples == Init /\ [][NextExamples]_vars

\* The scorer of the page on histories that are longer than the window of the
\* trend, and on histories of two prices spread around 100.
MaxOlder == 2

\* The prices of the points that are older than the window.
OlderPrices == {80, 200}

\* A window of TrendWindow points: k points at price a, the others at price b.
StepWindow(k, a, b) == [i \in 1..TrendWindow |-> [price |-> IF i <= k THEN a ELSE b]]

LongHistories ==
  {older \o StepWindow(k, a, b) :
     older \in SeqsUpTo([price : OlderPrices], MaxOlder),
     k \in 0..(TrendWindow - 1), a \in HistoryPrices, b \in HistoryPrices}

SpreadPrices == {80, 85, 92, 108, 115, 120}

SpreadHistories == {<<[price |-> a], [price |-> b]>> : a \in SpreadPrices, b \in SpreadPrices}

StatsHistories == Histories \cup LongHistories \cup SpreadHistories

NextStats ==
  \/ /\ FetchProductDataFrom({[current_price |-> 100]}, StatsHistories, {<<>>})
     /\ UNCHANGED <<proxyVars, sentimentVars>>
  \/ AnalyzeProductWithAI /\ UNCHANGED <<proxyVars, sentimentVars, trackVars>>

SpecStats == Init /\ [][NextStats]_vars

\* The page with tracking: the product is loaded, with no history and no review.
trackPageFrame ==
  <<priceHistory, reviews, analysis, aiAnalysis, loadingAnalysis, loadingAIAnalysis,
    aiLocals, upsertInFlight, product_analysis, priceDrops, product, loading,
    proxyVars, sentimentVars>>

NextTrack ==
  \/ /\ FetchProductDataFrom({[current_price |-> 100]}, {<<>>}, {<<>>})
     /\ UNCHANGED <<proxyVars, sentimentVars>>
  \/ SignIn /\ UNCHANGED trackPageFrame
  \/ OpenDialog /\ UNCHANGED trackPageFrame
  \/ TrackProduct /\ UNCHANGED trackPageFrame
  \/ InsertSucceeds /\ UNCHANGED trackPageFrame
  \/ InsertFails /\ UNCHANGED trackPageFrame
  \/ PreferenceUpsertDone /\ UNCHANGED trackPageFrame
  \/ UntrackProduct /\ UNCHANGED trackPageFrame
  \/ DeleteDone /\ UNCHANGED trackPageFrame

SpecTrack == Init /\ [][NextTrack]_vars

(***************************************************************************)
(* Properties of the client scorer, analyzeProductWithAI (Spec).           *)
(***************************************************************************)
Flat100 == [i \in 1..FlatLen |-> [price |-> 100]]

AllRated(rs, rating) == \A i \in 1..Len(rs) : rs[i].rating = rating

\* C1: the worthBuyingScore stored in aiAnalysis is an integer within [5, 95],
\* for every product, every non-empty price history and every list of reviews,
\* also when the current price lies outside the range of the history.
C1_ScoreIsIntegerIn5To95 ==
  aiAnalysis # Null =>
    LET score == aiAnalysis[1].worthBuyingScore
    IN  /\ IsInteger(score)
        /\ Ge(score, Num(5))
        /\ Le(score, Num(95))

\* The current price is above the highest price of the history, the reviews are
\* poor, and the score stored is the lower end of the range.
C1_Witness ==
  /\ aiAnalysis # Null
  /\ aiLocals # Null
  /\ Gt(aiLocals[1].currentPrice, aiLocals[1].highest)
  /\ Len(reviews) > 0
  /\ aiAnalysis[1].worthBuyingScore = Num(5)

\* C2: when the lowest and the highest price of the history are equal,
\* pricePosition is exactly 50 and the division by the range is not performed,
\* in analyzeProductWithAI and in the proxy, whatever the current price is.
C2_EqualMinMaxGivesPosition50 ==
  /\ (aiLocals # Null /\ aiLocals[1].lowest = aiLocals[1].highest) =>
       /\ aiLocals[1].pricePosition = Num(50)
       /\ ~aiLocals[1].dividedByRange
  /\ (proxyLocals # Null /\ proxyLocals[1].lowestPrice = proxyLocals[1].highestPrice) =>
       /\ proxyLocals[1].pricePosition = Num(50)
       /\ ~proxyLocals[1].dividedByRange

\* The client scorer has run on a history of several equal prices, with a current
\* price that differs from them.
C2_Witness ==
  /\ aiLocals # Null
  /\ Len(priceHistory) > 1
  /\ aiLocals[1].lowest = aiLocals[1].highest
  /\ aiLocals[1].currentPrice # aiLocals[1].lowest
  /\ aiLocals[1].pricePosition = Num(50)

\* The scorer has run on the history [100, 100, 100, 100, 100] with current
\* price 100.
OnFlat100 ==
  /\ aiLocals # Null
  /\ aiAnalysis # Null
  /\ priceHistory = Flat100
  /\ aiLocals[1].currentPrice = Num(100)

\* C3: on the history [100, 100, 100, 100, 100] with current price 100 the trend
\* slope and the volatility are 0 and the score is round(50 + reviewBonus); the
\* tier is "Fair deal", or "Wait for a better price" when the average rating is
\* below 1.6, and never "Strong buy".
C3_FlatHistoryTier ==
  OnFlat100 =>
    /\ aiLocals[1].trendSlope = Num(0)
    /\ aiLocals[1].volatilitySq = Num(0)
    /\ aiAnalysis[1].worthBuyingScore = MathRound(Add(Num(50), aiLocals[1].reviewBonus))
    /\ aiAnalysis[1].summary.tier \in {"Fair deal", "Wait for a better price"}
    /\ (aiAnalysis[1].summary.tier = "Wait for a better price")
         <=> Lt(aiLocals[1].avgRating, Norm(8, 5))
    /\ aiAnalysis[1].detailedRecommendation.tier = aiAnalysis[1].summary.tier

\* Every review is rated 1 and the tier is "Wait for a better price".
C3_Witness ==
  /\ OnFlat100
  /\ Len(reviews) > 0
  /\ AllRated(reviews, 1)
  /\ aiAnalysis[1].worthBuyingScore = Num(35)
  /\ aiAnalysis[1].summary.tier = "Wait for a better price"

\* C3 as it is stated: on that history the tier is "Fair deal" or "Strong buy".
C3_AsStated ==
  OnFlat100 =>
    /\ aiLocals[1].trendSlope = Num(0)
    /\ aiLocals[1].volatilitySq = Num(0)
    /\ aiAnalysis[1].summary.tier \in {"Fair deal", "Strong buy"}

\* The scorer has run with the current price 80 equal to the lowest price of a
\* history whose highest price is 100, and every review is rated 5.
AtLowestWithBestReviews ==
  /\ aiLocals # Null
  /\ aiAnalysis # Null
  /\ aiLocals[1].currentPrice = Num(80)
  /\ aiLocals[1].lowest = Num(80)
  /\ aiLocals[1].highest = Num(100)
  /\ Len(reviews) > 0
  /\ AllRated(reviews, 5)

\* C4: with current price = lowest price = 80, highest price 100 and every review
\* rated 5, reviewBonus is 15, the base score 100 - pricePosition is 100, and the
\* final score is 95 for every trend of the history.
C4_BestCaseClampsTo95 ==
  AtLowestWithBestReviews =>
    /\ aiLocals[1].reviewBonus = Num(15)
    /\ Sub(Num(100), aiLocals[1].pricePosition) = Num(100)
    /\ aiAnalysis[1].worthBuyingScore = Num(95)

\* The best case on a rising history, whose trend takes 5 off before the clamp.
C4_Witness ==
  /\ AtLowestWithBestReviews
  /\ Gt(aiLocals[1].trendSlope, Num(0))
  /\ aiAnalysis[1].worthBuyingScore = Num(95)

(***************************************************************************)
(* Properties of the sentiment aggregator (SpecAggregate, SpecSentiment).  *)
(***************************************************************************)
\* The last batch was not empty and every text of it was classified label with
\* score 1.
AllClassified(label) ==
  /\ batchLocals # Null
  /\ Len(batchLocals[1].results) > 0
  /\ \A k \in 1..Len(batchLocals[1].results) :
       batchLocals[1].results[k] = [label |-> label, score |-> Num(1)]

\* C5: a non-empty batch whose texts are all classified POSITIVE with score 1 gives
\* avgScore 1 and overall "Positive"; one whose texts are all classified NEGATIVE
\* with score 1 gives avgScore 0 and overall "Negative".
C5_UniformBatchAverages ==
  /\ AllClassified(<<"P", "O", "S", "I", "T", "I", "V", "E">>) =>
       /\ sentimentSummary.avgScore = Num(1)
       /\ sentimentSummary.overall = "Positive"
  /\ AllClassified(<<"N", "E", "G", "A", "T", "I", "V", "E">>) =>
       /\ sentimentSummary.avgScore = Num(0)
       /\ sentimentSummary.overall = "Negative"

\* A batch of two texts, both classified NEGATIVE with score 1, has been stored.
C5_Witness ==
  /\ AllClassified(<<"N", "E", "G", "A", "T", "I", "V", "E">>)
  /\ Len(batchLocals[1].texts) = 2
  /\ sentimentSummary.negative = 2
  /\ sentimentSummary.avgScore = Num(0)

\* C6: a run of the effect on reviews without any non-empty text calls neither
\* analyzeBatch nor the classifier nor its initialization, and leaves
\* sentimentSummary as it was.
C6_EmptyBatchIsSkipped ==
  [][(effectRuns' # effectRuns /\ TextsOf(reviews') = <<>>) =>
       /\ sentimentSummary' = sentimentSummary
       /\ analyzeBatchCalls' = analyzeBatchCalls
       /\ classifierCalls' = classifierCalls
       /\ pipelineLoads' = pipelineLoads
       /\ runs' = runs
       /\ isLoading' = isLoading]_vars

\* The effect has run on reviews without text after a summary was stored for a
\* batch with texts, and that summary is still there.
C6_Witness ==
  /\ effectRuns = 2
  /\ TextsOf(reviews) = <<>>
  /\ batchLocals # Null
  /\ sentimentSummary = SummaryOf(batchLocals[1].results, batchLocals[1].texts)
  /\ sentimentSummary.positive + sentimentSummary.negative + sentimentSummary.neutral > 0
  /\ analyzeBatchCalls = 1
  /\ classifierCalls = 1

(***************************************************************************)
(* Properties of the remote analysis proxy (Spec).                         *)
(***************************************************************************)
\* C7: when the gateway answers 429 the proxy answers 429 with an {error} body,
\* and a request never leads to more than one request to the gateway: once the
\* gateway's answer, or the lack of one, is known, the request is over.
C7_RateLimitPassedOnWithoutRetry ==
  /\ upstreamCalls <= 1
  /\ upstreamReply # Null => upstreamCalls = 1 /\ proxyPc = "done"
  /\ upstreamReply = Some(429) =>
       /\ Len(proxyResponses) = 1
       /\ proxyResponses[1].status = 429
       /\ DOMAIN proxyResponses[1].body = {"error"}

\* The gateway has answered 429 and the proxy has answered.
C7_Witness ==
  /\ upstreamReply = Some(429)
  /\ upstreamCalls = 1
  /\ Len(proxyResponses) = 1
  /\ proxyResponses[1].status = 429

\* C8: a gateway status 402 gives 402 with the credits-exhausted error; any other
\* status that is not OK gives 500; a missing LOVABLE_API_KEY gives 500 with the
\* message of the error and no request to the gateway; every request other than
\* OPTIONS is answered once, with status 200, 402, 429 or 500.
C8_FailureStatuses ==
  /\ upstreamReply = Some(402) =>
       proxyResponses =
         <<[status |-> 402,
            body |-> [error |-> "AI credits exhausted. Please add credits to continue."]]>>
  /\ (upstreamReply # Null /\ upstreamReply[1] \notin (200..299) \cup {402, 429}) =>
       /\ Len(proxyResponses) = 1
       /\ proxyResponses[1].status = 500
       /\ DOMAIN proxyResponses[1].body = {"error"}
  /\ (proxyRequest # Null /\ proxyRequest[1].method = "POST" /\ ~proxyRequest[1].keySet) =>
       /\ upstreamCalls = 0
       /\ Len(proxyResponses) = 1
       /\ proxyResponses[1].status = 500
       /\ DOMAIN proxyResponses[1].body = {"error"}
       /\ proxyRequest[1].wellFormed =>
            proxyResponses[1].body.error = "LOVABLE_API_KEY is not configured"
  /\ (proxyRequest # Null /\ proxyRequest[1].method = "POST") =>
       /\ Len(proxyResponses) <= 1
       /\ proxyPc = "done" =>
            /\ Len(proxyResponses) = 1
            /\ proxyResponses[1].status \in {200, 402, 429, 500}

\* A well-formed request has been served while LOVABLE_API_KEY was not set.
C8_Witness ==
  /\ proxyRequest = Some(Request("POST", TRUE, FALSE))
  /\ proxyPc = "done"
  /\ upstreamCalls = 0
  /\ Len(proxyResponses) = 1
  /\ proxyResponses[1].status = 500

(***************************************************************************)
(* Degenerate histories and tiers.                                         *)
(***************************************************************************)
\* C9, as it is stated: on a price history of at most one point every scorer gives
\* the neutral score, 50 of 100 (0.5 on the scale of analyzeProduct), and divides
\* by no zero.
C9_AsStated ==
  /\ (analysis # Null /\ Len(priceHistory) <= 1) =>
       analysis[1].sentiment_score = Norm(1, 2)
  /\ (aiAnalysis # Null /\ Len(priceHistory) <= 1) =>
       aiAnalysis[1].worthBuyingScore = Num(50)
  /\ (proxyLocals # Null /\ proxyLocals[1].pricesLength <= 1) =>
       /\ proxyLocals[1].worthBuyingScore = Num(50)
       /\ ~IsNaN(proxyLocals[1].avgPrice)

\* C10: the tier of summary and detailedRecommendation is the one of the score
\* stored: "Strong buy" from 70 on, "Fair deal" from 40 to 69, "Wait for a better
\* price" below 40.
C10_TierOfStoredScore ==
  aiAnalysis # Null =>
    LET score == aiAnalysis[1].worthBuyingScore
        tier == aiAnalysis[1].summary.tier
    IN  /\ aiAnalysis[1].detailedRecommendation.tier = tier
        /\ tier \in {"Strong buy", "Fair deal", "Wait for a better price"}
        /\ (tier = "Strong buy") <=> Ge(score, Num(70))
        /\ (tier = "Fair deal") <=> (Ge(score, Num(40)) /\ Le(score, Num(69)))
        /\ (tier = "Wait for a better price") <=> Lt(score, Num(40))

\* A score of exactly 70 has been stored, with the "Strong buy" texts.
C10_Witness ==
  /\ aiAnalysis # Null
  /\ aiAnalysis[1].worthBuyingScore = Num(70)
  /\ aiAnalysis[1].summary.tier = "Strong buy"

C12_AsStated ==
  \A k \in 1..Len(proxyResponses) :
    (/\ proxyLocals # Null
     /\ proxyLocals[1].pricesLength > 0
     /\ "worthBuyingScore" \in DOMAIN proxyResponses[k].body) =>
      /\ Ge(proxyResponses[k].body.worthBuyingScore, Num(0))
      /\ Le(proxyResponses[k].body.worthBuyingScore, Num(100))

\* The reference: ((avgRating - 3) / 2) * 15 with avgRating 3 for no review.
ReferenceBonus(rs) ==
  LET avgRating == IF Len(rs) = 0 THEN Num(3)
                   ELSE Div(SumOf([i \in 1..Len(rs) |-> Num(rs[i].rating)]), Num(Len(rs)))
  IN  Div(Mul(Sub(avgRating, Num(3)), Num(15)), Num(2))

\* The reference: +10 for a falling trend, -5 for a rising one, else 0.
ReferenceTrendAdjustment(trendSlope) ==
  IF Lt(trendSlope, Num(0)) THEN Num(10)
  ELSE IF Gt(trendSlope, Num(0)) THEN Num(-5)
  ELSE Num(0)

\* The reference: clamp(round(baseScore + reviewBonus + trendAdjustment), 5, 95).
ReferenceScore(pricePosition, rs, trendSlope) ==
  LET rounded == MathRound(Add(Add(Sub(Num(100), pricePosition), ReferenceBonus(rs)),
                               ReferenceTrendAdjustment(trendSlope)))
  IN  IF Lt(rounded, Num(5)) THEN Num(5)
      ELSE IF Gt(rounded, Num(95)) THEN Num(95)
      ELSE rounded

CallStarts == Len(runs') = Len(runs) + 1

\* C14: once an initialization has completed, a call that starts reuses the
\* memoized classifier and calls it at once; no step starts a load of the pipeline
\* and no step sets isLoading to true.
C14_MemoizedClassifierIsReused ==
  [][pipelineRef # Null =>
       /\ pipelineLoads' = pipelineLoads
       /\ isLoading' => isLoading
       /\ CallStarts =>
            /\ runs'[Len(runs')].classifier = pipelineRef
            /\ runs'[Len(runs')].pc = "classifying"]_vars

\* analyzeBatch has loaded the classifier and stored a summary; a later call of
\* analyzeText is at the classifier with the memoized one, and one load was made.
C14_Witness ==
  /\ pipelineRef # Null
  /\ batchLocals # Null
  /\ pipelineLoads = 1
  /\ ~isLoading
  /\ analyzeTextCalls = 1
  /\ Len(runs) = 1
  /\ runs[1].kind = "text"
  /\ runs[1].pc = "classifying"
  /\ runs[1].classifier = pipelineRef

\* C15: a call that starts while no classifier is memoized starts a load of its
\* own, whatever loads are under way; the caller goes on with the classifier of
\* its own load, and each load that completes replaces the memoized reference by
\* its classifier, so that the reference is the one of the load that completed
\* last.
C15_ConcurrentLoadsAreNotShared ==
  [][/\ (pipelineRef = Null /\ CallStarts) =>
          /\ pipelineLoads' = pipelineLoads + 1
          /\ runs'[Len(runs')].pc = "loading"
          /\ runs'[Len(runs')].classifier = Some(pipelineLoads')
     /\ \A i \in 1..Len(runs) :
          (/\ runs[i].pc = "loading"
           /\ Len(runs') = Len(runs)
           /\ runs'[i].pc = "classifying") =>
             /\ runs'[i].classifier = runs[i].classifier
             /\ pipelineRef' = runs[i].classifier]_vars

\* Two calls loaded the pipeline side by side; the load started second completed
\* first and the load started first completed last: the reference is the first
\* load's classifier, and each call is at the classifier with its own.
C15_Witness ==
  /\ pipelineLoads = 2
  /\ pipelineRef = Some(1)
  /\ Len(runs) = 2
  /\ runs[1].pc = "classifying"
  /\ runs[2].pc = "classifying"
  /\ runs[1].classifier = Some(1)
  /\ runs[2].classifier = Some(2)
  /\ classifierCalls = 2

(***************************************************************************)
(* Further properties of tracking (SpecTrack).                             *)
(***************************************************************************)
\* C16: trackProduct sends the upsert of the preference only in the step in which
\* its insert has added the row; the step in which the upsert is answered, applied
\* or failed, changes neither the rows of tracked_products nor isTracked; and rows
\* are removed by the delete of an untrackProduct only.
C16_UpsertAfterInsertNoCompensation ==
  [][/\ upsertsInFlight' > upsertsInFlight =>
          /\ insertsInFlight' = insertsInFlight - 1
          /\ tracked_products' = tracked_products + 1
          /\ isTracked'
     /\ upsertsInFlight' < upsertsInFlight =>
          /\ tracked_products' = tracked_products
          /\ isTracked' = isTracked
     /\ tracked_products' < tracked_products =>
          deletesInFlight' < deletesInFlight]_vars

\* One trackProduct has run: its insert added the row, its upsert was rejected and
\* shown as an error, no preference was stored; the row is there and isTracked is
\* true.
C16_Witness ==
  /\ trackCalls = 1
  /\ untrackCalls = 0
  /\ insertsInFlight = 0
  /\ upsertsInFlight = 0
  /\ lastToast = "Error"
  /\ user_preferences = 0
  /\ tracked_products = 1
  /\ isTracked

\* C25: the step in which the insert of trackProduct is answered with an error
\* leaves isTracked and the open dialog as they are and sends no upsert of the
\* preference; a call of trackProduct without a user sends no request to the
\* backend, changes no table, leaves isTracked as it is and navigates to /auth.
C25_FailedTrackAdvancesNothing ==
  [][/\ (insertsInFlight' < insertsInFlight /\ tracked_products' = tracked_products) =>
          /\ isTracked' = isTracked
          /\ dialogOpen' = dialogOpen
          /\ upsertsInFlight' = upsertsInFlight
          /\ user_preferences' = user_preferences
          /\ lastToast' = "Error"
     /\ (trackCalls' > trackCalls /\ user = Null) =>
          /\ isTracked' = isTracked
          /\ insertsInFlight' = insertsInFlight
          /\ upsertsInFlight' = upsertsInFlight
          /\ deletesInFlight' = deletesInFlight
          /\ tracked_products' = tracked_products
          /\ user_preferences' = user_preferences
          /\ navigatedToAuth'
          /\ lastToast' = "Authentication Required"]_vars

\* trackProduct has been called without a user, and again after signing in with
\* its insert answered with an error: isTracked is false, the dialog is open, no
\* row and no preference is stored.
C25_Witness ==
  /\ trackCalls = 2
  /\ navigatedToAuth
  /\ user # Null
  /\ insertsInFlight = 0
  /\ upsertsInFlight = 0
  /\ lastToast = "Error"
  /\ ~isTracked
  /\ dialogOpen
  /\ tracked_products = 0
  /\ user_preferences = 0

\* The results of the last batch whose label is label.
ResultsLabelled(label) ==
  {k \in 1..Len(batchLocals[1].results) : batchLocals[1].results[k].label = label}

\* +score for a POSITIVE result, -score for a NEGATIVE one, 0 for a NEUTRAL one.
SignedScore(r) ==
  IF r.label = <<"P", "O", "S", "I", "T", "I", "V", "E">> THEN r.score
  ELSE IF r.label = <<"N", "E", "G", "A", "T", "I", "V", "E">> THEN Sub(Num(0), r.score)
  ELSE Num(0)

RECURSIVE SignedSum(_, _)
SignedSum(results, n) ==
  IF n = 0 THEN Num(0) ELSE Add(SignedScore(results[n]), SignedSum(results, n - 1))

\* C19: the avgScore stored for a batch of texts, one result of score 0..1 per
\* text, is (sum/count + 1) / 2 for the signed sum of the scores and the number
\* of texts, and it is within 0..1.
C19_AvgScoreWithinUnit ==
  batchLocals # Null =>
    LET results == batchLocals[1].results
        count == Len(batchLocals[1].texts)
        avgScore == sentimentSummary.avgScore
    IN  /\ count \in 1..BatchLimit
        /\ avgScore = Div(Add(Div(SignedSum(results, Len(results)), Num(count)), Num(1)), Num(2))
        /\ avgScore[2] > 0
        /\ 0 <= avgScore[1]
        /\ avgScore[1] <= avgScore[2]

\* A batch of two texts, one classified POSITIVE with score 1 and one NEGATIVE with
\* score 1/5, has been stored with avgScore (4/5 / 2 + 1) / 2 = 7/10.
C19_Witness ==
  /\ batchLocals # Null
  /\ Len(batchLocals[1].texts) = 2
  /\ batchLocals[1].results[1] = [label |-> <<"P", "O", "S", "I", "T", "I", "V", "E">>, score |-> Num(1)]
  /\ batchLocals[1].results[2] = [label |-> <<"N", "E", "G", "A", "T", "I", "V", "E">>, score |-> Norm(1, 5)]
  /\ sentimentSummary.avgScore = Norm(7, 10)

\* C20: the label stored with an aggregate is "Positive" exactly when avgScore is
\* above 0.6, "Negative" exactly when it is below 0.4 and "Neutral" otherwise; a
\* batch whose results are all NEUTRAL is stored "Neutral" with avgScore 0.5.
C20_OverallLabel ==
  batchLocals # Null =>
    LET avgScore == sentimentSummary.avgScore
        overall == sentimentSummary.overall
        above == 10 * avgScore[1] > 6 * avgScore[2]
        below == 10 * avgScore[1] < 4 * avgScore[2]
    IN  /\ avgScore[2] > 0
        /\ overall = "Positive" <=> above
        /\ overall = "Negative" <=> below
        /\ overall = "Neutral" <=> (~above /\ ~below)
        /\ ResultsLabelled(<<"N", "E", "U", "T", "R", "A", "L">>) = 1..Len(batchLocals[1].results) =>
             /\ overall = "Neutral"
             /\ avgScore = Norm(1, 2)

\* An aggregate whose avgScore is exactly 0.6 has been stored "Neutral".
C20_Witness ==
  /\ batchLocals # Null
  /\ sentimentSummary.avgScore = Norm(6, 10)
  /\ sentimentSummary.overall = "Neutral"

\* The first n texts of the reviews rs from index i on, reviews without a text
\* left out.
RECURSIVE FirstTexts(_, _, _)
FirstTexts(rs, i, n) ==
  IF i > Len(rs) \/ n = 0 THEN <<>>
  ELSE IF rs[i].review_text = "" THEN FirstTexts(rs, i + 1, n)
  ELSE <<rs[i].review_text>> \o FirstTexts(rs, i + 1, n - 1)

\* The texts of the last batch at the first two indices of the set ks.
FirstTwoAt(ks) ==
  IF ks = {} THEN <<>>
  ELSE LET a == CHOOSE k \in ks : \A m \in ks : k <= m
           rest == ks \ {a}
       IN  IF rest = {} THEN <<batchLocals[1].texts[a]>>
           ELSE <<batchLocals[1].texts[a],
                  batchLocals[1].texts[CHOOSE k \in rest : \A m \in rest : k <= m]>>

\* C21: a run of the aggregator calls analyzeBatch at most once, with the first
\* (at most 20) texts of the reviews; the positive examples are the first two
\* texts of the batch classified positive, the negative examples the first two
\* classified negative, and no text classified neutral is an example.
C21_BatchAndExamples ==
  /\ analyzeBatchCalls <= effectRuns
  /\ \A i \in 1..Len(runs) :
       runs[i].kind = "batch" =>
         /\ Len(runs[i].texts) <= 20
         /\ runs[i].texts = FirstTexts(reviews, 1, 20)
  /\ batchLocals # Null =>
       LET pos == sentimentSummary.examples.pos
           neg == sentimentSummary.examples.neg
       IN  /\ Len(batchLocals[1].texts) <= 20
           /\ batchLocals[1].texts = FirstTexts(reviews, 1, 20)
           /\ Len(pos) <= 2
           /\ Len(neg) <= 2
           /\ pos = FirstTwoAt(ResultsLabelled(<<"P", "O", "S", "I", "T", "I", "V", "E">>))
           /\ neg = FirstTwoAt(ResultsLabelled(<<"N", "E", "G", "A", "T", "I", "V", "E">>))
           /\ \A k \in ResultsLabelled(<<"N", "E", "U", "T", "R", "A", "L">>) :
                /\ \A m \in 1..Len(pos) : pos[m] # batchLocals[1].texts[k]
                /\ \A m \in 1..Len(neg) : neg[m] # batchLocals[1].texts[k]

\* More than 20 reviews have a text: a batch of 20 texts has been stored, more
\* than two of them classified positive and one classified neutral, with two
\* positive examples.
C21_Witness ==
  /\ batchLocals # Null
  /\ Len(TextsOfUnsliced(reviews)) > 20
  /\ Len(batchLocals[1].texts) = 20
  /\ Cardinality(ResultsLabelled(<<"P", "O", "S", "I", "T", "I", "V", "E">>)) > 2
  /\ ResultsLabelled(<<"N", "E", "U", "T", "R", "A", "L">>) # {}
  /\ Len(sentimentSummary.examples.pos) = 2

(***************************************************************************)
(* The loading flags of the two analyses (SpecAnalyze).                    *)
(***************************************************************************)
\* C29: a run of analyzeProduct that has set loadingAnalysis resets it in the end,
\* whether its write was applied or failed; loadingAIAnalysis, set and reset by
\* one run of analyzeProductWithAI without an await, is false in every state; and
\* a run takes effect (sets its flag, shows a result, sends a write) only when
\* the product is there and its flag is false and, for analyzeProductWithAI, the
\* price history is not empty.
C29_LoadingFlagsAreReset ==
  /\ loadingAnalysis ~> ~loadingAnalysis
  /\ [](~loadingAIAnalysis)
  /\ [][/\ ((~loadingAnalysis /\ loadingAnalysis')
            \/ (upsertInFlight = Null /\ upsertInFlight' # Null)
            \/ (~loading /\ analysis' # analysis)) =>
             (product # Null /\ ~loadingAnalysis)
        /\ (loadingAnalysis /\ loadingAnalysis') =>
             (analysis' = analysis /\ product_analysis' = product_analysis
              /\ upsertInFlight' = upsertInFlight)
        /\ (aiAnalysis' # aiAnalysis \/ aiLocals' # aiLocals) =>
             (product # Null /\ Len(priceHistory) # 0 /\ ~loadingAIAnalysis)]_vars

\* A run of analyzeProduct has completed with its write failed, and a run of
\* analyzeProductWithAI has completed: both flags are false.
C29_Witness ==
  /\ analysis # Null
  /\ product_analysis = Null
  /\ upsertInFlight = Null
  /\ aiAnalysis # Null
  /\ ~loadingAnalysis
  /\ ~loadingAIAnalysis

(***************************************************************************)
(* The buy recommendation of the slider (SpecBuy).                         *)
(***************************************************************************)
\* The percentile of the current price in the range of the history, an integer:
\* round(100 (current - lowest) / (highest - lowest)), halves upwards.
PercentileOfPage ==
  LET lo == LowestPrice(product, priceHistory)[1]
      hi == HighestPrice(product, priceHistory)[1]
      cur == product[1].current_price
  IN  (200 * (cur - lo) + (hi - lo)) \div (2 * (hi - lo))

\* C30, as it is stated: "Okay" at 50 for a history of fewer than 5 points or a
\* range below 100; otherwise the label of the percentile, and a position
\* 85 - 0.7 * percentile that is within 15..85.
C30_AsStated ==
  (~loading /\ product # Null) =>
    IF Len(priceHistory) < 5
       \/ HighestPrice(product, priceHistory)[1] - LowestPrice(product, priceHistory)[1] < 100
    THEN recommendation = [label |-> "Okay", position |-> Num(50)]
    ELSE /\ recommendation.label =
              IF PercentileOfPage <= 20 THEN "Yes"
              ELSE IF PercentileOfPage <= 40 THEN "Okay"
              ELSE IF PercentileOfPage <= 70 THEN "Wait"
              ELSE "Skip"
         /\ recommendation.position = Norm(850 - 7 * PercentileOfPage, 10)
         /\ Le(Num(15), recommendation.position)
         /\ Le(recommendation.position, Num(85))

(***************************************************************************)
(* Overlapping batches of the sentiment effect (SpecSentiment).            *)
(***************************************************************************)
\* C26, as it is stated: the summary of a batch is never replaced by the summary
\* of a batch that an earlier run of the effect started, so that the summary left
\* when every batch has completed is the one of the most recent reviews.
C26_AsStated ==
  [][(/\ batchLocals # Null
      /\ batchLocals' # Null
      /\ batchLocals'[1].texts # batchLocals[1].texts) =>
       batchLocals'[1].id > batchLocals[1].id]_vars

\* C27, as it is stated: isLoading is true exactly in the states in which an
\* initialization of the classifier is in flight.
C27_AsStated ==
  isLoading <=> (\E i \in 1..Len(runs) : runs[i].pc = "loading")

\* A load ends without a classifier: its run ends while it is loading.
LoadFails == \E i \in 1..Len(runs) : runs[i].pc = "loading" /\ runs' = RemoveAt(runs, i)

\* C28: the step in which an initialization fails memoizes nothing, resets
\* isLoading, ends the call without a result (the classifier is not called, the
\* summary and the result of analyzeText stay as they are); and a call made while
\* nothing is memoized, after a failure as well, starts an initialization.
C28_FailureIsNotMemoized ==
  [][/\ LoadFails =>
          /\ pipelineRef' = pipelineRef
          /\ ~isLoading'
          /\ classifierCalls' = classifierCalls
          /\ sentimentSummary' = sentimentSummary
          /\ batchLocals' = batchLocals
          /\ lastTextResult' = lastTextResult
     /\ (CallStarts /\ pipelineRef = Null) =>
          /\ pipelineLoads' = pipelineLoads + 1
          /\ runs'[Len(runs')].pc = "loading"
          /\ isLoading']_vars

\* The first initialization has failed and a later call has started a second one:
\* nothing is memoized, the classifier was never called and no result is stored.
C28_Witness ==
  /\ pipelineLoads = 2
  /\ Len(runs) = 1
  /\ runs[1].pc = "loading"
  /\ runs[1].classifier = Some(2)
  /\ pipelineRef = Null
  /\ classifierCalls = 0
  /\ batchLocals = Null
  /\ lastTextResult = Null
  /\ isLoading

(***************************************************************************)
(* The cached analysis (SpecLegacy).                                       *)
(***************************************************************************)
\* C23, as it is stated: once a run of analyzeProduct has completed, the backend
\* holds the one AnalysisResult of the product, with the score, recommendation
\* and summary of that run, which are the ones the page shows.
C23_AsStated ==
  (analysis # Null /\ ~loadingAnalysis /\ upsertInFlight = Null) =>
    product_analysis = analysis

(***************************************************************************)
(* The price drops (SpecDrops).                                            *)
(***************************************************************************)
\* The rows of the history that are a drop of at least 5% from the row before.
DropRows ==
  {i \in 2..Len(priceHistory) :
     /\ priceHistory[i].price < priceHistory[i - 1].price
     /\ 100 * (priceHistory[i - 1].price - priceHistory[i].price)
          >= 5 * priceHistory[i - 1].price}

\* C24, as it is stated: priceDrops holds only drops of at least 5% between two
\* consecutive points, at most 5 of them, and the 5 most recent ones when more
\* than 5 qualify.
C24_AsStated ==
  (~loading /\ Len(priceHistory) > 1) =>
    /\ Len(priceDrops) <= 5
    /\ \A k \in 1..Len(priceDrops) : priceDrops[k].date \in DropRows
    /\ Cardinality(DropRows) > 5 =>
         /\ Len(priceDrops) = 5
         /\ \A i \in DropRows :
              (\E k \in 1..5 : priceDrops[k].date = i)
                <=> Cardinality({j \in DropRows : j > i}) < 5

(***************************************************************************)
(* Properties of the parsing of the reply by the proxy (SpecParse).        *)
(***************************************************************************)
\* The lines of the text t that are not blank.
NonBlankLines(t) == SelectSeq(Split(t, <<"\n">>), LAMBDA l : Trim(l) # <<>>)

\* A line is a marker of the summary, a marker of the detailed recommendation,
\* or text.
KindOf(line) ==
  IF IsSummaryMarker(line) THEN "summary"
  ELSE IF IsDetailedMarker(line) THEN "detailed"
  ELSE "text"

\* The section line k lies in: the kind of the last marker before it.
SectionOf(lines, k) ==
  LET markers == {j \in 1..(k - 1) : KindOf(lines[j]) # "text"}
  IN  IF markers = {} THEN "none"
      ELSE KindOf(lines[CHOOSE j \in markers : \A m \in markers : m <= j])

\* The lines of text of the section kind from line k on, trimmed, a space after
\* each: no line that is a marker is part of it.
RECURSIVE MarkedField(_, _, _)
MarkedField(lines, k, kind) ==
  IF k > Len(lines) THEN <<>>
  ELSE (IF KindOf(lines[k]) = "text" /\ SectionOf(lines, k) = kind
        THEN Trim(lines[k]) \o <<" ">> ELSE <<>>)
       \o MarkedField(lines, k + 1, kind)

\* The text before the first blank line, and the text between the first and the
\* second (empty when there is no blank line).
FirstParagraph(t) ==
  LET occ == Occurrences(t, <<"\n", "\n">>)
  IN  IF occ = {} THEN t ELSE SubSeq(t, 1, (CHOOSE i \in occ : \A j \in occ : i <= j) - 1)

SecondParagraph(t) ==
  LET occ == Occurrences(t, <<"\n", "\n">>)
  IN  IF occ = {} THEN <<>>
      ELSE LET i == CHOOSE i \in occ : \A j \in occ : i <= j
           IN  FirstParagraph(SubSeq(t, i + 2, Len(t)))

\* The reply of the successful response, if there is one.
Replied == Len(proxyResponses) = 1 /\ "analysisText" \in DOMAIN proxyResponses[1].body

\* C22: when the lines between the markers fill both fields, the response carries
\* them (trimmed), and they hold no line that is a marker; when one of them is
\* empty, the summary is the first paragraph, or the first 200 characters of the
\* reply when that is empty, and the detailed recommendation is the second
\* paragraph, or the reply from character 200 on when that is missing or empty
\* (both trimmed).
C22_ParseFallsBack ==
  Replied =>
    LET body == proxyResponses[1].body
        t == body.analysisText
        summary == MarkedField(NonBlankLines(t), 1, "summary")
        detailed == MarkedField(NonBlankLines(t), 1, "detailed")
    IN  IF summary # <<>> /\ detailed # <<>>
        THEN /\ body.summary = Trim(summary)
             /\ body.detailedRecommendation = Trim(detailed)
        ELSE /\ body.summary =
                  Trim(IF FirstParagraph(t) # <<>> THEN FirstParagraph(t)
                       ELSE SubstringTo(t, 200))
             /\ body.detailedRecommendation =
                  Trim(IF SecondParagraph(t) # <<>> THEN SecondParagraph(t)
                       ELSE SubstringFrom(t, 200))

\* The reply has text after a marker of the summary and none after a marker of
\* the detailed recommendation: the response carries the first paragraph, the
\* marker included.
C22_Witness ==
  /\ Replied
  /\ MarkedField(NonBlankLines(proxyResponses[1].body.analysisText), 1, "summary") # <<>>
  /\ MarkedField(NonBlankLines(proxyResponses[1].body.analysisText), 1, "detailed") = <<>>
  /\ IsSummaryMarker(proxyResponses[1].body.summary)
  /\ proxyResponses[1].body.summary = Trim(FirstParagraph(proxyResponses[1].body.analysisText))

(***************************************************************************)
(* Properties of the statistics of the client scorer (SpecStats).          *)
(***************************************************************************)
\* The sum of f[i] for i in 1..n.
RECURSIVE SumTo(_, _)
SumTo(f, n) == IF n = 0 THEN 0 ELSE f[n] + SumTo(f, n - 1)

\* The ordinary least-squares slope of the integers ys against their indices
\* 0..n-1: (n Sxy - Sx Sy) / (n Sxx - Sx Sx).
LeastSquaresSlope(ys) ==
  LET n == Len(ys)
      sx == SumTo([i \in 1..n |-> i - 1], n)
      sy == SumTo(ys, n)
      sxy == SumTo([i \in 1..n |-> (i - 1) * ys[i]], n)
      sxx == SumTo([i \in 1..n |-> (i - 1) * (i - 1)], n)
  IN  Norm(n * sxy - sx * sy, n * sxx - sx * sx)

\* The last min(TrendWindow, n) prices of the history.
RecentWindow ==
  LET n == Len(priceHistory)
      m == IF n < TrendWindow THEN n ELSE TrendWindow
  IN  [i \in 1..m |-> priceHistory[n - m + i].price]

\* C17: trendSlope is the least-squares slope of price against index over the last
\* min(14, n) points of the history, whatever the older points are; it is 0 for
\* fewer than 3 points and 0 for a window of equal prices.
C17_TrendSlopeIsLeastSquares ==
  aiLocals # Null =>
    /\ Len(priceHistory) >= 3 => aiLocals[1].trendSlope = LeastSquaresSlope(RecentWindow)
    /\ Len(priceHistory) < 3 => aiLocals[1].trendSlope = Num(0)
    /\ (\A i \in 1..Len(RecentWindow) : RecentWindow[i] = RecentWindow[1]) =>
         aiLocals[1].trendSlope = Num(0)

\* The scorer has run on a history of more than 14 points whose oldest point, at
\* a price of its own, lies outside the window, and the window is not flat.
C17_Witness ==
  /\ aiLocals # Null
  /\ Len(priceHistory) > TrendWindow
  /\ priceHistory[1].price = 200
  /\ aiLocals[1].trendSlope # Num(0)

\* The prices of the history, as integers.
HistoryPriceAt == [i \in 1..Len(priceHistory) |-> priceHistory[i].price]

\* With n prices of sum s and sum of squares q, the square of the volatility as
\* a fraction is (n q - s s) / (s s).
VarianceSide ==
  LET n == Len(priceHistory)
      s == SumTo(HistoryPriceAt, n)
      q == SumTo([i \in 1..n |-> HistoryPriceAt[i] * HistoryPriceAt[i]], n)
  IN  n * q - s * s

MeanSide ==
  LET s == SumTo(HistoryPriceAt, Len(priceHistory)) IN s * s

\* The square of 8% is 4/625 and the square of 15% is 9/400.
VolatilityAbove8 == 625 * VarianceSide > 4 * MeanSide
VolatilityIs8 == 625 * VarianceSide = 4 * MeanSide
VolatilityAbove15 == 400 * VarianceSide > 9 * MeanSide

\* C18 (amended): the label is "stable" when volatility is at most 8%,
\* "moderately volatile" when it is above 8% and at most 15%, and "highly
\* volatile" when it is above 15%; a volatility of exactly 8% is labelled "stable".
C18_VolatilityLabel ==
  (aiLocals # Null /\ Len(priceHistory) > 0) =>
    aiLocals[1].volatilityLevel =
      IF VolatilityAbove15 THEN "highly volatile"
      ELSE IF VolatilityAbove8 THEN "moderately volatile"
      ELSE "stable"

\* The scorer has labelled a history whose volatility is exactly 8%.
C18_Witness ==
  /\ aiLocals # Null
  /\ Len(priceHistory) > 0
  /\ VolatilityIs8
  /\ aiLocals[1].volatilityLevel = "stable"

\* C18 as it is stated: "stable" below 8%, "moderately volatile" from 8% to 15%
\* inclusive, "highly volatile" above 15%.
C18_AsStated ==
  (aiLocals # Null /\ Len(priceHistory) > 0) =>
    aiLocals[1].volatilityLevel =
      IF VolatilityAbove15 THEN "highly volatile"
      ELSE IF VolatilityAbove8 \/ VolatilityIs8 THEN "moderately volatile"
      ELSE "stable"

=============================================================================
